---- MODULE Spec2Model ----
(***************************************************************************)
(* Crisis risk assessment engine of the mood tracker backend               *)
(* (backend/app/ai/crisis_detector.py), with the collaborators it reads:   *)
(* the model manager's registry and the sentiment analyzer's keyword risk  *)
(* assessment.                                                             *)
(*                                                                         *)
(* Numbers.  Severities and the base score are integers in thousandths     *)
(* (permille).  Confidences and the adjusted score are exact fractions     *)
(* [n, d] in lowest terms.  Python floats are modelled by exact rational   *)
(* arithmetic.                                                             *)
(***************************************************************************)
EXTENDS Integers, Sequences, FiniteSets, TLC

VARIABLES
    hour,            \* datetime.now().hour, the local wall clock
    crisis_loaded,   \* "crisis" in model_manager.rule_based_models
    sentiment_up,    \* the sentiment analyzer imports and its analysis goes through
    severity_of,     \* crisis_taxonomy[..][..]['severity'], by leaf name
    last,            \* the last call of the engine: its inputs and what it returned
    probe,           \* the last direct application of a scoring helper
    calls,           \* the assess_crisis_risk coroutines in flight, by caller
    crisis_incidents,    \* the rows of the crisis_incidents table, oldest first
    response,            \* what the last request to the service or to main.py got
    active_connections,  \* main.active_connections: user_id -> WebSocket
    sockets              \* every WebSocket so far: its user, its state, its inbox

\* the state of the service and of main.py
server == <<crisis_incidents, response, active_connections, sockets>>

vars == <<hour, crisis_loaded, sentiment_up, severity_of, last, probe, calls, server>>

(***************************************************************************)
(* Strings: str.lower, str.strip, substring search, regex word boundaries. *)
(***************************************************************************)
Min(a, b) == IF a <= b THEN a ELSE b
Max(a, b) == IF a >= b THEN a ELSE b

Chr(s, i) == SubSeq(s, i, i)

UpperCase == "ABCDEFGHIJKLMNOPQRSTUVWXYZ"
LowerCase == "abcdefghijklmnopqrstuvwxyz"
Digits == "0123456789"

\* 1-based index of the one-character string c in s, 0 when absent
IndexOf(s, c) ==
    IF \E i \in 1..Len(s) : Chr(s, i) = c
    THEN CHOOSE i \in 1..Len(s) : Chr(s, i) = c /\ \A j \in 1..(i - 1) : Chr(s, j) # c
    ELSE 0

LowerChar(c) ==
    IF IndexOf(UpperCase, c) > 0 THEN Chr(LowerCase, IndexOf(UpperCase, c)) ELSE c

RECURSIVE Lower(_)
Lower(s) == IF s = "" THEN "" ELSE LowerChar(Chr(s, 1)) \o Lower(SubSeq(s, 2, Len(s)))

IsSpace(c) == c \in {" ", "\t", "\n", "\r"}

RECURSIVE LStrip(_)
LStrip(s) == IF s # "" /\ IsSpace(Chr(s, 1)) THEN LStrip(SubSeq(s, 2, Len(s))) ELSE s

RECURSIVE RStrip(_)
RStrip(s) ==
    IF s # "" /\ IsSpace(Chr(s, Len(s))) THEN RStrip(SubSeq(s, 1, Len(s) - 1)) ELSE s

Strip(s) == RStrip(LStrip(s))

\* kw occupies positions i .. i+Len(kw)-1 of text
OccursAt(text, kw, i) ==
    /\ i >= 1
    /\ i + Len(kw) - 1 <= Len(text)
    /\ SubSeq(text, i, i + Len(kw) - 1) = kw

\* Python's `kw in text`
Contains(text, kw) == \E i \in 1..(Len(text) - Len(kw) + 1) : OccursAt(text, kw, i)

\* Python's text.find(kw): 0-based index of the first occurrence, -1 when absent
Find(text, kw) ==
    IF Contains(text, kw)
    THEN (CHOOSE i \in 1..(Len(text) - Len(kw) + 1) :
              /\ OccursAt(text, kw, i)
              /\ \A j \in 1..(i - 1) : ~OccursAt(text, kw, j)) - 1
    ELSE -1

\* Python's text[lo:hi] for 0 <= lo <= hi <= len(text)
Slice(text, lo, hi) == SubSeq(text, lo + 1, hi)

\* \w of the re module, on lower-cased ASCII text
IsWordChar(c) == IndexOf(LowerCase, c) > 0 \/ IndexOf(Digits, c) > 0 \/ c = "_"

\* \b between positions p-1 and p (1-based; p in 1..Len+1)
WordBoundary(text, p) ==
    LET before == p >= 2 /\ p - 1 <= Len(text) /\ IsWordChar(Chr(text, p - 1))
        after  == p >= 1 /\ p <= Len(text) /\ IsWordChar(Chr(text, p))
    IN  before # after

\* the alternative w of \b(..|w|..)\b matches at position i
WordAt(text, w, i) ==
    /\ OccursAt(text, w, i)
    /\ WordBoundary(text, i)
    /\ WordBoundary(text, i + Len(w))

\* re.search(r'\b(a1|a2|..)\b', text) is not None
ReSearch(alts, text) ==
    \E k \in 1..Len(alts) : \E i \in 1..Len(text) : WordAt(text, alts[k], i)

\* re.findall(r'\b(a1|a2|..)\b', text): leftmost match, first alternative that
\* matches there, then on from the end of the match
RECURSIVE FindAllFrom(_, _, _)
FindAllFrom(alts, text, i) ==
    IF i > Len(text) THEN <<>>
    ELSE IF \E k \in 1..Len(alts) : WordAt(text, alts[k], i)
         THEN LET k == CHOOSE k \in 1..Len(alts) :
                           /\ WordAt(text, alts[k], i)
                           /\ \A j \in 1..(k - 1) : ~WordAt(text, alts[j], i)
              IN  <<alts[k]>> \o FindAllFrom(alts, text, i + Len(alts[k]))
         ELSE FindAllFrom(alts, text, i + 1)

ReFindAll(alts, text) == FindAllFrom(alts, text, 1)

\* the keywords that are the whole text
FoundIn_exact(keywords, text) == SelectSeq(keywords, LAMBDA k : k = text)

\* [k for k in keywords if k in text]
FoundIn(keywords, text) == SelectSeq(keywords, LAMBDA k : Contains(text, k))

\* any(k in text for k in keywords)
AnyIn(keywords, text) == \E i \in 1..Len(keywords) : Contains(text, keywords[i])

(***************************************************************************)
(* The detector's tables (CrisisDetector.__init__) and the sentiment       *)
(* analyzer's crisis keywords.  Severities in permille.                    *)
(***************************************************************************)
crisis_taxonomy ==
    <<
    [category |-> "imminent_danger", subcategory |-> "suicide_explicit",
     keywords |->
        <<"kill myself", "end my life", "take my own life", "suicide plan",
          "going to kill myself", "want to die today",
          "tonight is the night", "this is goodbye", "final message",
          "last time", "won't see me again">>,
     severity |-> 1000, urgency |-> "immediate", intervention |-> "immediate_intervention"],
    [category |-> "imminent_danger", subcategory |-> "self_harm_immediate",
     keywords |->
        <<"cutting myself now", "about to hurt myself", "pills in hand",
          "rope ready", "bridge nearby", "gun loaded", "razor blade",
          "overdose tonight", "jumping off">>,
     severity |-> 950, urgency |-> "immediate", intervention |-> "emergency_services"],
    [category |-> "imminent_danger", subcategory |-> "method_specific",
     keywords |->
        <<"hanging", "overdose", "pills", "bridge", "train tracks", "gun",
          "knife", "razor", "poison", "carbon monoxide", "cliff",
          "tall building">>,
     severity |-> 900, urgency |-> "immediate", intervention |-> "crisis_contact"],
    [category |-> "high_risk_ideation", subcategory |-> "suicide_ideation",
     keywords |->
        <<"want to die", "wish I was dead", "better off dead", "end it all",
          "can't go on", "no point living", "world without me",
          "everyone better without me", "suicide", "kill myself",
          "end my life">>,
     severity |-> 800, urgency |-> "high", intervention |-> "crisis_contact"],
    [category |-> "high_risk_ideation", subcategory |-> "hopelessness_severe",
     keywords |->
        <<"no hope", "hopeless", "nothing will change", "permanent solution",
          "only way out", "escape", "relief from pain", "end the suffering">>,
     severity |-> 750, urgency |-> "high", intervention |-> "crisis_contact"],
    [category |-> "high_risk_ideation", subcategory |-> "worthlessness_extreme",
     keywords |->
        <<"worthless", "useless", "burden to everyone", "waste of space",
          "failure", "mistake", "shouldn't exist", "deserve to die">>,
     severity |-> 700, urgency |-> "high", intervention |-> "professional_referral"],
    [category |-> "medium_risk_warning", subcategory |-> "self_harm_ideation",
     keywords |->
        <<"hurt myself", "self harm", "cut myself", "burn myself",
          "punish myself", "deserve pain", "cutting", "burning",
          "hitting myself">>,
     severity |-> 600, urgency |-> "medium", intervention |-> "professional_referral"],
    [category |-> "medium_risk_warning", subcategory |-> "isolation_severe",
     keywords |->
        <<"nobody cares", "all alone", "no one understands",
          "completely isolated", "abandoned", "forgotten", "invisible",
          "doesn't matter">>,
     severity |-> 550, urgency |-> "medium", intervention |-> "professional_referral"],
    [category |-> "medium_risk_warning", subcategory |-> "mood_deterioration",
     keywords |->
        <<"getting worse", "spiraling down", "falling apart",
          "losing control", "breaking down", "can't cope", "overwhelmed",
          "drowning">>,
     severity |-> 500, urgency |-> "medium", intervention |-> "professional_referral"],
    [category |-> "behavioral_warnings", subcategory |-> "giving_away_possessions",
     keywords |->
        <<"giving away", "don't need anymore", "take my things",
          "saying goodbye", "final arrangements", "will and testament",
          "last wishes", "goodbye letter">>,
     severity |-> 800, urgency |-> "high", intervention |-> "crisis_contact"],
    [category |-> "behavioral_warnings", subcategory |-> "social_withdrawal",
     keywords |->
        <<"staying away from everyone", "don't want to see anyone",
          "canceling everything", "pushing people away", "isolating myself",
          "avoiding contact">>,
     severity |-> 400, urgency |-> "medium", intervention |-> "professional_referral"],
    [category |-> "behavioral_warnings", subcategory |-> "substance_abuse_escalation",
     keywords |->
        <<"drinking more", "using more drugs", "numbing the pain",
          "escape reality", "too many pills", "overdose", "blackout",
          "lose consciousness">>,
     severity |-> 600, urgency |-> "medium", intervention |-> "professional_referral"]
    >>

protective_factors ==
    <<
    [factor_type |-> "social_support",
     keywords |->
        <<"family", "friends", "support", "help", "care about me", "love me",
          "there for me", "talk to someone", "reach out">>],
    [factor_type |-> "future_orientation",
     keywords |->
        <<"tomorrow", "next week", "future", "plans", "goals",
          "looking forward", "excited about", "hoping for">>],
    [factor_type |-> "coping_strategies",
     keywords |->
        <<"therapy", "counseling", "meditation", "exercise", "breathing",
          "coping", "managing", "treatment">>],
    [factor_type |-> "help_seeking",
     keywords |->
        <<"getting help", "seeing therapist", "calling hotline",
          "seeking support", "asking for help", "professional help">>],
    [factor_type |-> "meaning_purpose",
     keywords |->
        <<"purpose", "meaning", "reason to live", "responsibility",
          "children", "pets", "dreams", "passion">>]
    >>

crisis_keywords ==
    [high_risk |->
        <<"suicide", "kill myself", "end my life", "want to die",
          "better off dead", "take my own life", "not worth living",
          "end it all">>,
     self_harm |->
        <<"hurt myself", "cut myself", "self harm", "self-harm",
          "harm myself", "cut my wrists", "burning myself", "punish myself">>,
     hopelessness |->
        <<"no hope", "hopeless", "nothing matters", "pointless", "give up",
          "no point", "meaningless", "worthless", "useless">>,
     warning_signs |->
        <<"can't go on", "too much pain", "escape", "disappear", "fade away",
          "nobody cares", "all alone", "burden", "waste of space">>]

\* the patterns of _detect_pattern_indicators, each \b(..|..)\b as its alternatives
temporal_urgency_patterns ==
    <<[urgency_level |-> "immediate",
       alts |-> <<"now", "today", "tonight", "right now", "this moment", "about to">>],
      [urgency_level |-> "soon",
       alts |-> <<"tomorrow", "this week", "soon", "planning to", "going to">>],
      [urgency_level |-> "vague",
       alts |-> <<"someday", "eventually", "thinking about", "considering">>]>>

\* pills? is the greedy pair pills, pill
method_patterns ==
    <<[pattern_name |-> "specific_method",
       alts |-> <<"pills", "pill", "rope", "gun", "knife", "bridge", "cliff",
                  "overdose", "hanging">>],
      [pattern_name |-> "location_specific",
       alts |-> <<"bridge", "roof", "track", "highway", "cliff", "tall building">>],
      [pattern_name |-> "final_actions",
       alts |-> <<"goodbye", "farewell", "last time", "final", "won't see">>]>>

escalation_patterns ==
    <<<<"getting worse", "spiraling", "falling apart", "losing control">>,
      <<"can't take", "can't handle", "too much", "overwhelming">>,
      <<"breaking point", "last straw", "enough", "end of rope">>>>

final_arrangements ==
    <<"saying goodbye", "last message", "final words", "goodbye letter",
      "will and testament", "take care of", "look after", "remember me">>

closure_patterns ==
    <<"won't see you again", "this is goodbye", "last time talking",
      "forgive me", "sorry for everything", "it's not your fault">>

pain_escape ==
    <<"end the pain", "stop the hurt", "make it stop", "can't bear",
      "unbearable", "too painful", "suffering too much">>

negation_words ==
    <<"not", "never", "no", "nothing", "nowhere", "nobody", "none", "don't",
      "won't", "can't">>

substance_keywords == <<"drunk", "high", "pills", "alcohol", "drugs">>

plan_keywords == <<"plan", "method", "when", "how", "where">>

high_risk_emotions == <<"hopeless", "worthless", "trapped", "desperate">>

LeafName(leaf) == leaf.category \o "_" \o leaf.subcategory

LeafNames == {LeafName(crisis_taxonomy[i]) : i \in 1..Len(crisis_taxonomy)}

(***************************************************************************)
(* Exact fractions for confidences.                                        *)
(***************************************************************************)
RECURSIVE Gcd(_, _)
Gcd(a, b) == IF b = 0 THEN a ELSE Gcd(b, a % b)

Lcm(a, b) == (a \div Gcd(a, b)) * b

Frac(n, d) == IF n = 0 THEN [n |-> 0, d |-> 1]
              ELSE [n |-> n \div Gcd(n, d), d |-> d \div Gcd(n, d)]

FracMul(f, n, d) == Frac(f.n * n, f.d * d)

\* f < g, cross-multiplied over the common factor of the denominators
FracLess(f, g) ==
    f.n * (g.d \div Gcd(f.d, g.d)) < g.n * (f.d \div Gcd(f.d, g.d))

FracMin(f, g) == IF FracLess(g, f) THEN g ELSE f

FracMax(f, g) == IF FracLess(f, g) THEN g ELSE f

One == Frac(1, 1)

RECURSIVE ConcatAll(_)
ConcatAll(seqs) == IF seqs = <<>> THEN <<>> ELSE Head(seqs) \o ConcatAll(Tail(seqs))

(***************************************************************************)
(* Keyword detector.                                                       *)
(***************************************************************************)
\* len(keyword.split()) > 1
IsMultiWord(keyword) ==
    \E i \in 2..(Len(keyword) - 1) :
        /\ IsSpace(Chr(keyword, i))
        /\ \E j \in 1..(i - 1) : ~IsSpace(Chr(keyword, j))
        /\ \E j \in (i + 1)..Len(keyword) : ~IsSpace(Chr(keyword, j))

\* the x1.1 taken once when any of the found keywords is a phrase
PhraseBoost_once(conf, found_keywords) ==
    IF \E i \in 1..Len(found_keywords) : IsMultiWord(found_keywords[i])
    THEN FracMul(conf, 11, 10) ELSE conf

\* the loop `for keyword in found_keywords: if multi-word: base_confidence *= 1.1`
RECURSIVE PhraseBoost(_, _)
PhraseBoost(conf, found_keywords) ==
    IF found_keywords = <<>> THEN conf
    ELSE PhraseBoost(IF IsMultiWord(Head(found_keywords))
                     THEN FracMul(conf, 11, 10) ELSE conf,
                     Tail(found_keywords))

calculate_keyword_confidence(found_keywords, all_keywords) ==
    LET base    == FracMin(Frac(Len(found_keywords), Len(all_keywords)), One)
        boosted == IF Len(found_keywords) > 1 THEN FracMul(base, 12, 10) ELSE base
    IN  FracMin(PhraseBoost(boosted, found_keywords), One)

NegationWindow == 20

\* only the first occurrence of each keyword is looked at, and only when it
\* is not at the very start of the text (keyword_pos > 0)
check_negation_context(text, keywords) ==
    \E k \in 1..Len(keywords) :
        LET keyword_pos == Find(text, keywords[k])
        IN  /\ keyword_pos > 0
            /\ AnyIn(negation_words,
                     Slice(text, Max(0, keyword_pos - NegationWindow), keyword_pos))

\* what one leaf of the double loop of _detect_keyword_indicators reads off
\* the text: the keywords found, their confidence, the negation check
LeafMatch(leaf, text) ==
    LET found_keywords == FoundIn(leaf.keywords, text)
    IN  [found_keywords |-> found_keywords,
         confidence     |-> calculate_keyword_confidence(found_keywords, leaf.keywords),
         is_negated     |-> check_negation_context(text, found_keywords)]

\* the indicator of that leaf, if any; sev is the severity read from the taxonomy.
\* An indicator's context, a snippet cut out of the text, is left out of the model.
LeafIndicator(leaf, sev, m) ==
    IF m.found_keywords = <<>> THEN <<>>
    ELSE <<[category       |-> LeafName(leaf),
            severity       |-> IF m.is_negated THEN sev \div 2 ELSE sev,
            keywords_found |-> m.found_keywords,
            confidence     |-> IF m.is_negated THEN FracMul(m.confidence, 3, 10)
                               ELSE m.confidence,
            urgency_level  |-> leaf.urgency]>>

LeafMatches(text) ==
    [i \in 1..Len(crisis_taxonomy) |-> LeafMatch(crisis_taxonomy[i], text)]

\* matches is LeafMatches of the lower-cased text
detect_keyword_indicators(matches, sevs) ==
    ConcatAll([i \in 1..Len(crisis_taxonomy) |->
                  LeafIndicator(crisis_taxonomy[i],
                                sevs[LeafName(crisis_taxonomy[i])], matches[i])])

(***************************************************************************)
(* Pattern, contextual and sentiment detectors.                            *)
(***************************************************************************)
TemporalSeverity(urgency_level) ==
    CASE urgency_level = "immediate" -> 900
      [] urgency_level = "soon"      -> 700
      [] urgency_level = "vague"     -> 400
      [] OTHER                       -> 500

TemporalIndicator(p, text) ==
    IF ReSearch(p.alts, text)
    THEN <<[category       |-> "temporal_urgency_" \o p.urgency_level,
            severity       |-> TemporalSeverity(p.urgency_level),
            keywords_found |-> <<"temporal_pattern_" \o p.urgency_level>>,
            confidence     |-> Frac(7, 10),
            urgency_level  |-> p.urgency_level]>>
    ELSE <<>>

MethodIndicator(p, text) ==
    LET matches == ReFindAll(p.alts, text)
    IN  IF matches # <<>>
        THEN <<[category       |-> "method_pattern_" \o p.pattern_name,
                severity       |-> IF p.pattern_name = "specific_method" THEN 800 ELSE 700,
                keywords_found |-> matches,
                confidence     |-> Frac(8, 10),
                urgency_level  |-> "high"]>>
        ELSE <<>>

EscalationIndicator(i, text) ==
    IF ReSearch(escalation_patterns[i + 1], text)
    THEN <<[category       |-> "escalation_pattern_" \o Chr(Digits, i + 1),
            severity       |-> 600,
            keywords_found |-> <<"escalation_" \o Chr(Digits, i + 1)>>,
            confidence     |-> Frac(6, 10),
            urgency_level  |-> "medium"]>>
    ELSE <<>>

detect_pattern_indicators(text) ==
    ConcatAll([i \in 1..Len(temporal_urgency_patterns) |->
                  TemporalIndicator(temporal_urgency_patterns[i], text)])
    \o ConcatAll([i \in 1..Len(method_patterns) |->
                  MethodIndicator(method_patterns[i], text)])
    \o ConcatAll([i \in 1..Len(escalation_patterns) |-> EscalationIndicator(i - 1, text)])

PhraseIndicator(phrases, text, category, sev, conf, urgency) ==
    LET found == FoundIn(phrases, text)
    IN  IF found # <<>>
        THEN <<[category       |-> category,
                severity       |-> sev,
                keywords_found |-> found,
                confidence     |-> conf,
                urgency_level  |-> urgency]>>
        ELSE <<>>

detect_contextual_indicators(text) ==
    PhraseIndicator(final_arrangements, text, "final_arrangements", 850, Frac(8, 10), "high")
    \o PhraseIndicator(closure_patterns, text, "social_closure", 900, Frac(85, 100),
                       "immediate")
    \o PhraseIndicator(pain_escape, text, "pain_escape", 700, Frac(7, 10), "high")

\* SentimentAnalyzer._assess_crisis_risk: one group of its keyword scan
SentimentHits(keywords, label, text_lower) ==
    LET found == FoundIn(keywords, text_lower)
    IN  [i \in 1..Len(found) |-> label \o ": '" \o found[i] \o "'"]

\* the risk_score is a sum of 0.3, 0.25, 0.15 and 0.1, here in permille
sentiment_assess_crisis_risk(text) ==
    LET text_lower == Lower(text)
        hr == SentimentHits(crisis_keywords.high_risk, "High risk language", text_lower)
        sh == SentimentHits(crisis_keywords.self_harm, "Self-harm indicator", text_lower)
        hl == SentimentHits(crisis_keywords.hopelessness, "Hopelessness indicator",
                            text_lower)
        ws == SentimentHits(crisis_keywords.warning_signs, "Warning sign", text_lower)
        risk_score == 300 * Len(hr) + 250 * Len(sh) + 150 * Len(hl) + 100 * Len(ws)
    IN  [risk_level      |-> IF risk_score >= 700 THEN "critical"
                             ELSE IF risk_score >= 400 THEN "high"
                             ELSE IF risk_score >= 200 THEN "medium"
                             ELSE IF risk_score > 0 THEN "low"
                             ELSE "minimal",
         risk_score      |-> Min(risk_score, 1000),
         risk_indicators |-> hr \o sh \o hl \o ws]

\* what analyze_sentiment hands back under 'crisis_assessment': the keyword
\* assessment, or that of _empty_analysis / _error_analysis when the text is
\* blank or any of its steps raised
EmptyCrisisAssessment ==
    [risk_level |-> "minimal", risk_score |-> 0, risk_indicators |-> <<>>]

\* a failed analysis reported as the highest risk
analyze_sentiment_crisis_failing_critical(text, sentiment_ok) ==
    IF Strip(text) = "" THEN EmptyCrisisAssessment
    ELSE IF ~sentiment_ok
    THEN [risk_level |-> "critical", risk_score |-> 1000,
          risk_indicators |-> <<"analysis failed">>]
    ELSE sentiment_assess_crisis_risk(Strip(text))

analyze_sentiment_crisis(text, sentiment_ok) ==
    IF Strip(text) = "" \/ ~sentiment_ok THEN EmptyCrisisAssessment
    ELSE sentiment_assess_crisis_risk(Strip(text))

\* sentiment_ok = FALSE stands for the import or the analysis failing
detect_ai_indicators(text, sentiment_ok) ==
    LET crisis_data == analyze_sentiment_crisis(text, sentiment_ok)
    IN  IF crisis_data.risk_score > 300
        THEN <<[category       |-> "ai_sentiment_crisis",
                severity       |-> crisis_data.risk_score,
                keywords_found |-> crisis_data.risk_indicators,
                confidence     |-> Frac(7, 10),
                urgency_level  |-> crisis_data.risk_level]>>
        ELSE <<>>

(***************************************************************************)
(* Deduplication, ranking, the whole detection pass.                       *)
(***************************************************************************)
HasCategory(inds, category) == \E i \in 1..Len(inds) : inds[i].category = category

\* a later indicator of a category that is there already is dropped
MergeInto_keeping_first(unique, ind) == unique

\* merge into the first indicator of that category
MergeInto(unique, ind) ==
    LET k == CHOOSE k \in 1..Len(unique) :
                 /\ unique[k].category = ind.category
                 /\ \A j \in 1..(k - 1) : unique[j].category # ind.category
    IN  [unique EXCEPT ![k] =
            [@ EXCEPT !.severity       = Max(@, ind.severity),
                      !.confidence     = FracMax(@, ind.confidence),
                      !.keywords_found = @ \o ind.keywords_found]]

RECURSIVE DedupFrom(_, _)
DedupFrom(unique, indicators) ==
    IF indicators = <<>> THEN unique
    ELSE DedupFrom(IF HasCategory(unique, Head(indicators).category)
                   THEN MergeInto(unique, Head(indicators))
                   ELSE Append(unique, Head(indicators)),
                   Tail(indicators))

deduplicate_indicators(indicators) == DedupFrom(<<>>, indicators)

\* list.sort(key=severity, reverse=True): stable, equal severities keep their order
RECURSIVE InsertBySeverity(_, _)
InsertBySeverity(sorted, ind) ==
    IF sorted = <<>> THEN <<ind>>
    ELSE IF Head(sorted).severity >= ind.severity
         THEN <<Head(sorted)>> \o InsertBySeverity(Tail(sorted), ind)
         ELSE <<ind>> \o sorted

RECURSIVE SortFrom(_, _)
SortFrom(sorted, rest) ==
    IF rest = <<>> THEN sorted
    ELSE SortFrom(InsertBySeverity(sorted, Head(rest)), Tail(rest))

SortBySeverityDesc(indicators) == SortFrom(<<>>, indicators)

detect_protective_factors(text) ==
    LET text_lower == Lower(text)
    IN  ConcatAll([i \in 1..Len(protective_factors) |->
            LET found == FoundIn(protective_factors[i].keywords, text_lower)
            IN  [j \in 1..Len(found) |->
                    protective_factors[i].factor_type \o ": " \o found[j]]])

\* everything a call reads off its (stripped) text alone
TextScan(text) ==
    LET text_lower == Lower(text)
    IN  [leaf_matches |-> LeafMatches(text_lower),
         pattern      |-> detect_pattern_indicators(text_lower),
         contextual   |-> detect_contextual_indicators(text_lower),
         ai           |-> [sentiment_ok \in BOOLEAN |->
                              detect_ai_indicators(text, sentiment_ok)],
         protective   |-> detect_protective_factors(text),
         substance    |-> AnyIn(substance_keywords, text_lower),
         plan         |-> AnyIn(plan_keywords, text_lower)]

Str(s) == [is_none |-> FALSE, s |-> s]

NoText == [is_none |-> TRUE, s |-> ""]

\* the texts the model calls the engine with
Texts ==
    {NoText,
     Str(""),
     Str("  \n "),
     Str("Feeling okay today, just a bit tired"),
     Str("going to kill myself tonight"),
     Str("I want to die and I have pills ready, it's the only way out"),
     Str("I am not suicidal"),
     Str("I am suicidal"),
     Str("I would never kill myself"),
     Str("pills in hand"),
     Str("I feel hopeless but my family and friends support me"),
     Str("feeling a bit worthless"),
     Str("I keep isolating myself"),
     Str("I am not isolating myself"),
     Str("I can't go on. THIS IS GOODBYE "),
     Str("it is all pointless and meaningless, I give up"),
     Str("no hope left, I want to end it all")}

\* the texts the scoring helpers are applied to directly
ProbeTexts == {"fine", "drunk again", "no plan, high hopes", "when will it end"}

\* the lower-cased texts the keyword detector is applied to directly: a
\* keyword with a negation before it, behind it, far before it, before its
\* second occurrence only, and with "no" inside another word before it
NegationTexts ==
    {"i would never kill myself",
     "kill myself? never",
     "no, really: after all of this i want to kill myself",
     "i might kill myself, it feels so close. i will not kill myself",
     "i think about suicide a lot",
     "you know i think about suicide a lot"}

\* the scans of those texts, evaluated once
ScanTable ==
    [t \in {Strip(x.s) : x \in Texts} \cup ProbeTexts \cup NegationTexts |-> TextScan(t)]

Scan(text) == ScanTable[text]

\* scan is the scan of the stripped input; available is
\* is_model_available('crisis')
detect_crisis_indicators(scan, sevs, available, sentiment_ok) ==
    SortBySeverityDesc(deduplicate_indicators(
        detect_keyword_indicators(scan.leaf_matches, sevs)
        \o scan.pattern
        \o scan.contextual
        \o (IF available THEN scan.ai[sentiment_ok] ELSE <<>>)))

(***************************************************************************)
(* Scoring.                                                                *)
(***************************************************************************)
\* the multiplier times ten; an unknown urgency string counts as 1.0
urgency_to_multiplier(urgency) ==
    CASE urgency = "immediate" -> 15
      [] urgency = "high"      -> 13
      [] urgency = "medium"    -> 11
      [] urgency = "low"       -> 10
      [] OTHER                 -> 10

RECURSIVE SumSeq(_)
SumSeq(s) == IF s = <<>> THEN 0 ELSE Head(s) + SumSeq(Tail(s))

RECURSIVE GcdSeq(_)
GcdSeq(s) == IF s = <<>> THEN 0 ELSE Gcd(Head(s), GcdSeq(Tail(s)))

RECURSIVE LcmOfDens(_)
LcmOfDens(inds) ==
    IF inds = <<>> THEN 1 ELSE Lcm(Head(inds).confidence.d, LcmOfDens(Tail(inds)))

RECURSIVE MaxUrgency(_)
MaxUrgency(inds) ==
    IF inds = <<>> THEN 0
    ELSE Max(urgency_to_multiplier(Head(inds).urgency_level), MaxUrgency(Tail(inds)))

\* Python's round(num/den): to the nearest integer, an exact half to the even one
RoundHalfEven(num, den) ==
    LET q == num \div den
        r == num % den
    IN  IF 2 * r < den THEN q
        ELSE IF 2 * r > den THEN q + 1
        ELSE IF q % 2 = 0 THEN q ELSE q + 1

\* the weighted sum divided by the number of indicators, not by their weight
calculate_base_risk_score_per_indicator(indicators) ==
    IF indicators = <<>> THEN 0
    ELSE
      LET L   == LcmOfDens(indicators)
          num == 10 * SumSeq([i \in 1..Len(indicators) |->
                               indicators[i].severity * indicators[i].confidence.n
                                 * (L \div indicators[i].confidence.d)])
                   + Min(Len(indicators) * 50, 200) * MaxUrgency(indicators)
                       * L * Len(indicators)
          den == 10 * L * Len(indicators)
      IN  IF num >= 1000 * den THEN 1000 ELSE RoundHalfEven(num, den)

\* the weighted mean taken of confidence * severity * confidence
calculate_base_risk_score_squared_confidence(indicators) ==
    IF indicators = <<>> THEN 0
    ELSE
      LET L   == LcmOfDens(indicators)
          Raw == [i \in 1..Len(indicators) |->
                     indicators[i].confidence.n * (L \div indicators[i].confidence.d)]
          num == 10 * SumSeq([i \in 1..Len(indicators) |->
                                 indicators[i].severity * Raw[i] * Raw[i]])
                   + Min(Len(indicators) * 50, 200) * MaxUrgency(indicators)
                       * L * SumSeq(Raw)
          den == 10 * L * SumSeq(Raw)
      IN  IF SumSeq(Raw) = 0 THEN 0
          ELSE IF num >= 1000 * den THEN 1000 ELSE RoundHalfEven(num, den)

\* the weights are the confidences over their common denominator, divided by
\* their common factor; the result is in permille, round(final_score, 3)
calculate_base_risk_score(indicators) ==
    IF indicators = <<>> THEN 0
    ELSE
      LET L   == LcmOfDens(indicators)
          Raw == [i \in 1..Len(indicators) |->
                     indicators[i].confidence.n * (L \div indicators[i].confidence.d)]
          g   == GcdSeq(Raw)
          W   == [i \in 1..Len(indicators) |-> Raw[i] \div g]
          total_weight == SumSeq(W)
      IN  IF g = 0 THEN 0
          ELSE
            LET total_weighted_score ==
                    SumSeq([i \in 1..Len(indicators) |-> indicators[i].severity * W[i]])
                \* min(len(indicators) * 0.05, 0.2), in permille
                indicator_bonus == Min(Len(indicators) * 50, 200)
                max_urgency == MaxUrgency(indicators)
                \* base_score + indicator_bonus * max_urgency = num / den permille
                num == 10 * total_weighted_score
                         + indicator_bonus * max_urgency * total_weight
                den == 10 * total_weight
            IN  IF num >= 1000 * den THEN 1000 ELSE RoundHalfEven(num, den)

\* `if context:` / `if user_history:` -- None and the empty dict are both falsy
Truthy(d) == ~d.is_none /\ d.keys # {}

\* a dict is [is_none, keys, nulls, num, flag, emotions]: the keys it holds,
\* those of them stored with None, and the values by key.
\* dict.get(key, default) for the numeric keys; a key stored with None gives None
HasNull(d, key) == key \in d.keys /\ key \in d.nulls

GetNum(d, key, default) == IF key \in d.keys THEN d.num[key] ELSE default

GetFlag(d, key) == key \in d.keys /\ d.flag[key]

\* both mood steps taken at a mood_score of 2 or less: x1.3 and then x1.1
MoodFactor_both(context) ==
    IF ~Truthy(context) THEN One
    ELSE IF GetNum(context, "mood_score", 5) <= 2 THEN Frac(143, 100)
    ELSE IF GetNum(context, "mood_score", 5) <= 4 THEN Frac(11, 10)
    ELSE One

MoodFactor(context) ==
    IF ~Truthy(context) THEN One
    ELSE IF GetNum(context, "mood_score", 5) <= 2 THEN Frac(13, 10)
    ELSE IF GetNum(context, "mood_score", 5) <= 4 THEN Frac(11, 10)
    ELSE One

Times(score, applies, n, d) == IF applies THEN FracMul(score, n, d) ELSE score

\* an adjusted score above 1.0 thrown away for the base score
apply_contextual_adjustments_or_base(base_score, scan, context, user_history) ==
    IF FracLess(One,
                Times(Times(Times(Times(Times(
                    FracMul(Frac(base_score, 1000), MoodFactor(context).n,
                            MoodFactor(context).d),
                    Truthy(context) /\ GetFlag(context, "recent_mood_decline"), 12, 10),
                    Truthy(user_history)
                      /\ GetNum(user_history, "previous_attempts", 0) > 0, 14, 10),
                    Truthy(user_history)
                      /\ GetNum(user_history, "crisis_incidents_last_month", 0) > 2,
                    12, 10),
                    scan.substance, 13, 10),
                    scan.plan, 14, 10))
    THEN Frac(base_score, 1000)
    ELSE Times(Times(Times(Times(Times(
             FracMul(Frac(base_score, 1000), MoodFactor(context).n,
                     MoodFactor(context).d),
             Truthy(context) /\ GetFlag(context, "recent_mood_decline"), 12, 10),
             Truthy(user_history)
               /\ GetNum(user_history, "previous_attempts", 0) > 0, 14, 10),
             Truthy(user_history)
               /\ GetNum(user_history, "crisis_incidents_last_month", 0) > 2, 12, 10),
             scan.substance, 13, 10),
             scan.plan, 14, 10)

\* the adjustments without the closing min(adjusted_score, 1.0)
apply_contextual_adjustments_uncapped(base_score, scan, context, user_history) ==
    Times(Times(Times(Times(Times(
        FracMul(Frac(base_score, 1000), MoodFactor(context).n, MoodFactor(context).d),
        Truthy(context) /\ GetFlag(context, "recent_mood_decline"), 12, 10),
        Truthy(user_history) /\ GetNum(user_history, "previous_attempts", 0) > 0, 14, 10),
        Truthy(user_history)
          /\ GetNum(user_history, "crisis_incidents_last_month", 0) > 2, 12, 10),
        scan.substance, 13, 10),
        scan.plan, 14, 10)

\* base_score in permille; scan is the scan of the text; the result is the
\* exact fraction of 1
apply_contextual_adjustments(base_score, scan, context, user_history) ==
    LET s0 == Frac(base_score, 1000)
        s1 == FracMul(s0, MoodFactor(context).n, MoodFactor(context).d)
        s2 == Times(s1, Truthy(context) /\ GetFlag(context, "recent_mood_decline"), 12, 10)
        s3 == Times(s2, Truthy(user_history)
                          /\ GetNum(user_history, "previous_attempts", 0) > 0, 14, 10)
        s4 == Times(s3, Truthy(user_history)
                          /\ GetNum(user_history, "crisis_incidents_last_month", 0) > 2,
                    12, 10)
        s5 == Times(s4, scan.substance, 13, 10)
        s6 == Times(s5, scan.plan, 14, 10)
    IN  FracMin(s6, One)

\* a comparison of None with a number raises TypeError
AdjustmentsRaise(context, user_history) ==
    \/ Truthy(context) /\ HasNull(context, "mood_score")
    \/ Truthy(user_history) /\ HasNull(user_history, "previous_attempts")
    \/ Truthy(user_history) /\ HasNull(user_history, "crisis_incidents_last_month")

AtLeast(score, n, d) == ~FracLess(score, Frac(n, d))

imminent_categories ==
    {"imminent_danger_suicide_explicit", "imminent_danger_self_harm_immediate"}

\* the level read off the score alone, the category override left out
determine_risk_level_by_score(risk_score, indicators) ==
    IF AtLeast(risk_score, 95, 100) THEN "imminent"
    ELSE IF AtLeast(risk_score, 8, 10) THEN "critical"
    ELSE IF AtLeast(risk_score, 6, 10) THEN "high"
    ELSE IF AtLeast(risk_score, 4, 10) THEN "medium"
    ELSE IF AtLeast(risk_score, 2, 10) THEN "low"
    ELSE "minimal"

\* the thresholds compared with > where the code has >=
determine_risk_level_strict(risk_score, indicators) ==
    IF (\E i \in 1..Len(indicators) : indicators[i].category \in imminent_categories)
       \/ FracLess(Frac(95, 100), risk_score) THEN "imminent"
    ELSE IF FracLess(Frac(8, 10), risk_score) THEN "critical"
    ELSE IF FracLess(Frac(6, 10), risk_score) THEN "high"
    ELSE IF FracLess(Frac(4, 10), risk_score) THEN "medium"
    ELSE IF FracLess(Frac(2, 10), risk_score) THEN "low"
    ELSE "minimal"

\* the category override granted only to an indicator at its full severity
determine_risk_level_unless_negated(risk_score, indicators) ==
    IF (\E i \in 1..Len(indicators) :
            /\ indicators[i].category \in imminent_categories
            /\ indicators[i].severity >= 950)
       \/ AtLeast(risk_score, 95, 100) THEN "imminent"
    ELSE IF AtLeast(risk_score, 8, 10) THEN "critical"
    ELSE IF AtLeast(risk_score, 6, 10) THEN "high"
    ELSE IF AtLeast(risk_score, 4, 10) THEN "medium"
    ELSE IF AtLeast(risk_score, 2, 10) THEN "low"
    ELSE "minimal"

determine_risk_level(risk_score, indicators) ==
    LET has_imminent ==
            \E i \in 1..Len(indicators) : indicators[i].category \in imminent_categories
    IN  IF has_imminent \/ AtLeast(risk_score, 95, 100) THEN "imminent"
        ELSE IF AtLeast(risk_score, 8, 10) THEN "critical"
        ELSE IF AtLeast(risk_score, 6, 10) THEN "high"
        ELSE IF AtLeast(risk_score, 4, 10) THEN "medium"
        ELSE IF AtLeast(risk_score, 2, 10) THEN "low"
        ELSE "minimal"

\* the lookup with the entry of HIGH missing, so that it falls to the default
determine_intervention_type_without_high(risk_level) ==
    IF risk_level = "imminent" THEN "immediate_intervention"
    ELSE IF risk_level = "critical" THEN "emergency_services"
    ELSE IF risk_level = "medium" THEN "professional_referral"
    ELSE IF risk_level = "low" THEN "self_help"
    ELSE "none"

determine_intervention_type(risk_level) ==
    IF risk_level = "imminent" THEN "immediate_intervention"
    ELSE IF risk_level = "critical" THEN "emergency_services"
    ELSE IF risk_level = "high" THEN "crisis_contact"
    ELSE IF risk_level = "medium" THEN "professional_referral"
    ELSE IF risk_level = "low" THEN "self_help"
    ELSE "none"

\* a chain without the branch of CRITICAL
generate_immediate_actions_without_critical(risk_level) ==
    IF risk_level = "imminent"
    THEN <<"IMMEDIATE ACTION REQUIRED",
           "Call 911 or emergency services NOW",
           "Go to the nearest emergency room immediately",
           "Call 988 (Suicide & Crisis Lifeline) - Available 24/7",
           "Contact a trusted person to stay with you",
           "Remove or secure any means of self-harm">>
    ELSE IF risk_level \in {"critical", "high"}
    THEN <<"Call 988 (Suicide & Crisis Lifeline)",
           "Text HOME to 741741 for immediate support",
           "Reach out to trusted friend, family, or counselor",
           "Review safety plan if you have one",
           "Consider emergency services if feelings intensify">>
    ELSE IF risk_level = "medium"
    THEN <<"Contact mental health professional or counselor",
           "Call non-emergency crisis support line",
           "Reach out to trusted support person",
           "Use coping strategies you've learned",
           "Create or review safety plan">>
    ELSE <<"Practice self-care and stress management",
           "Stay connected with support network",
           "Monitor mood changes",
           "Consider professional support if needed">>

\* the instruction strings without their leading pictograms
generate_immediate_actions(risk_level) ==
    IF risk_level = "imminent"
    THEN <<"IMMEDIATE ACTION REQUIRED",
           "Call 911 or emergency services NOW",
           "Go to the nearest emergency room immediately",
           "Call 988 (Suicide & Crisis Lifeline) - Available 24/7",
           "Contact a trusted person to stay with you",
           "Remove or secure any means of self-harm">>
    ELSE IF risk_level = "critical"
    THEN <<"URGENT CRISIS SUPPORT NEEDED",
           "Call 988 (Suicide & Crisis Lifeline) immediately",
           "Text HOME to 741741 for Crisis Text Line",
           "Contact emergency contact or trusted person",
           "Consider going to emergency room",
           "Secure environment from harmful items">>
    ELSE IF risk_level = "high"
    THEN <<"Call 988 (Suicide & Crisis Lifeline)",
           "Text HOME to 741741 for immediate support",
           "Reach out to trusted friend, family, or counselor",
           "Review safety plan if you have one",
           "Consider emergency services if feelings intensify">>
    ELSE IF risk_level = "medium"
    THEN <<"Contact mental health professional or counselor",
           "Call non-emergency crisis support line",
           "Reach out to trusted support person",
           "Use coping strategies you've learned",
           "Create or review safety plan">>
    ELSE <<"Practice self-care and stress management",
           "Stay connected with support network",
           "Monitor mood changes",
           "Consider professional support if needed">>

Resource(name, contact, type, description) ==
    [name |-> name, contact |-> contact, type |-> type, availability |-> "24/7",
     description |-> description]

\* the helpline and the chat at LOW as well
recommend_resources_with_low(risk_level) ==
    <<Resource("National Suicide Prevention Lifeline", "988", "phone",
               "Free confidential crisis support"),
      Resource("Crisis Text Line", "Text HOME to 741741", "text",
               "Crisis counseling via text")>>
    \o (IF risk_level \in {"imminent", "critical"}
        THEN <<Resource("Emergency Services", "911", "emergency",
                        "Immediate emergency response"),
               Resource("Emergency Room", "Nearest hospital", "in_person",
                        "Immediate medical and psychiatric care")>>
        ELSE <<>>)
    \o (IF risk_level \in {"high", "medium", "low"}
        THEN <<Resource("SAMHSA National Helpline", "1-800-662-4357", "phone",
                        "Mental health treatment referrals"),
               Resource("Crisis Chat", "https://suicidepreventionlifeline.org/chat/",
                        "online", "Online crisis chat support")>>
        ELSE <<>>)

recommend_resources(risk_level) ==
    <<Resource("National Suicide Prevention Lifeline", "988", "phone",
               "Free confidential crisis support"),
      Resource("Crisis Text Line", "Text HOME to 741741", "text",
               "Crisis counseling via text")>>
    \o (IF risk_level \in {"imminent", "critical"}
        THEN <<Resource("Emergency Services", "911", "emergency",
                        "Immediate emergency response"),
               Resource("Emergency Room", "Nearest hospital", "in_person",
                        "Immediate medical and psychiatric care")>>
        ELSE <<>>)
    \o (IF risk_level \in {"high", "medium"}
        THEN <<Resource("SAMHSA National Helpline", "1-800-662-4357", "phone",
                        "Mental health treatment referrals"),
               Resource("Crisis Chat", "https://suicidepreventionlifeline.org/chat/",
                        "online", "Online crisis chat support")>>
        ELSE <<>>)

(***************************************************************************)
(* Risk factors and the assessment.                                        *)
(***************************************************************************)
RECURSIVE JoinComma(_)
JoinComma(strs) ==
    IF strs = <<>> THEN ""
    ELSE IF Len(strs) = 1 THEN Head(strs)
    ELSE Head(strs) \o ", " \o JoinComma(Tail(strs))

IsIn(x, s) == \E i \in 1..Len(s) : s[i] = x

\* 22 <= current_hour or current_hour <= 6
IsLateNight(current_hour) == 22 <= current_hour \/ current_hour <= 6

identify_risk_factors(context, user_history, current_hour) ==
    LET mood_score == GetNum(context, "mood_score", 5)
        emotions == IF "emotions" \in context.keys THEN context.emotions ELSE <<>>
        found_risk_emotions == SelectSeq(emotions, LAMBDA e : IsIn(e, high_risk_emotions))
    IN  (IF ~Truthy(context) THEN <<>>
         ELSE (IF mood_score <= 2 THEN <<"Very low mood score">>
               ELSE IF mood_score <= 4 THEN <<"Low mood score">>
               ELSE <<>>)
              \o (IF found_risk_emotions # <<>>
                  THEN <<"High-risk emotions: " \o JoinComma(found_risk_emotions)>>
                  ELSE <<>>))
        \o (IF ~Truthy(user_history) THEN <<>>
            ELSE (IF GetNum(user_history, "previous_crisis_incidents", 0) > 0
                  THEN <<"Previous crisis incidents">> ELSE <<>>)
                 \o (IF GetFlag(user_history, "recent_major_loss")
                     THEN <<"Recent major loss or trauma">> ELSE <<>>)
                 \o (IF GetFlag(user_history, "substance_abuse_history")
                     THEN <<"History of substance abuse">> ELSE <<>>))
        \o (IF IsLateNight(current_hour)
            THEN <<"Late night/early morning timing">> ELSE <<>>)

\* a comparison of None with a number raises TypeError
RiskFactorsRaise(context, user_history) ==
    \/ Truthy(context) /\ HasNull(context, "mood_score")
    \/ Truthy(user_history) /\ HasNull(user_history, "previous_crisis_incidents")

\* str(e) of the TypeError of `None <= 2` and of `None > 0`
RiskFactorsError(context) ==
    IF Truthy(context) /\ HasNull(context, "mood_score")
    THEN "'<=' not supported between instances of 'NoneType' and 'int'"
    ELSE "'>' not supported between instances of 'NoneType' and 'int'"

AdjustmentsError(context) == RiskFactorsError(context)

\* what the caller gets: a CrisisAssessment, or the exception that escaped
Returned(assessment) == [raised |-> FALSE, assessment |-> assessment]

Raised(error_msg) == [raised |-> TRUE, error |-> error_msg]

\* processing_time_ms and timestamp, readings of the clock below the hour,
\* are left out of the metadata
minimal_risk_assessment ==
    [risk_level            |-> "minimal",
     risk_score            |-> Frac(0, 1),
     intervention_type     |-> "none",
     crisis_indicators     |-> <<>>,
     protective_factors    |-> <<>>,
     risk_factors          |-> <<>>,
     immediate_actions     |-> <<"Continue monitoring mood and wellbeing">>,
     resources_recommended |-> <<>>,
     assessment_metadata   |->
        [text_length       |-> 0,
         indicators_found  |-> 0,
         assessment_method |-> "minimal_default",
         error             |-> "Empty or invalid input"]]

\* the fallback without the message written over the note
error_assessment_unmarked(error_msg) == minimal_risk_assessment

error_assessment(error_msg) ==
    [minimal_risk_assessment EXCEPT !.assessment_metadata.error = error_msg]

\* a handler that logs and raises again
OnException_reraise(error_msg) == Raised(error_msg)

\* the handler of `except Exception as e`
OnException(error_msg) == Returned(error_assessment(error_msg))

\* the CrisisAssessment the try block builds
CrisisAssessment(risk_level, risk_score, crisis_indicators, protective_found, risk_factors, text_length) ==
    [risk_level            |-> risk_level,
     risk_score            |-> risk_score,
     intervention_type     |-> determine_intervention_type(risk_level),
     crisis_indicators     |-> crisis_indicators,
     protective_factors    |-> protective_found,
     risk_factors          |-> risk_factors,
     immediate_actions     |-> generate_immediate_actions(risk_level),
     resources_recommended |-> recommend_resources(risk_level),
     assessment_metadata   |->
        [text_length              |-> text_length,
         indicators_found         |-> Len(crisis_indicators),
         protective_factors_count |-> Len(protective_found),
         risk_factors_count       |-> Len(risk_factors),
         assessment_method        |-> "multi_layered_analysis",
         requires_human_review    |-> AtLeast(risk_score, 7, 10)]]

\* the level from the adjusted score, then the assessment
AssessmentOfScore(adjusted_risk_score, crisis_indicators, protective_found, risk_factors, text_length) ==
    CrisisAssessment(determine_risk_level(adjusted_risk_score, crisis_indicators),
                     adjusted_risk_score, crisis_indicators, protective_found,
                     risk_factors, text_length)

\* the adjusted score taken down by a tenth for each protective factor
AssessmentOfIndicators_protected(crisis_indicators, scan, context, user_history, current_hour, text_length) ==
    AssessmentOfScore(
        FracMul(apply_contextual_adjustments(calculate_base_risk_score(crisis_indicators),
                                             scan, context, user_history),
                Max(0, 10 - Len(scan.protective)), 10),
        crisis_indicators,
        scan.protective,
        identify_risk_factors(context, user_history, current_hour),
        text_length)

\* the base score of the indicators and its adjustment, the protective
\* factors and the risk factors
AssessmentOfIndicators(crisis_indicators, scan, context, user_history, current_hour, text_length) ==
    AssessmentOfScore(
        apply_contextual_adjustments(calculate_base_risk_score(crisis_indicators),
                                     scan, context, user_history),
        crisis_indicators,
        scan.protective,
        identify_risk_factors(context, user_history, current_hour),
        text_length)

\* the body of the try block, once no step has raised; text is the stripped
\* input and scan its scan
NormalAssessment(text, scan, context, user_history, sevs, current_hour, available, sentiment_ok) ==
    AssessmentOfIndicators(
        detect_crisis_indicators(scan, sevs, available, sentiment_ok),
        scan, context, user_history, current_hour, Len(text))

\* the guard as `not text` alone
IsBlank_without_strip(text) == text.is_none \/ text.s = ""

\* text is [is_none, s]; `not text or not text.strip()` guards the body
IsBlank(text) == text.is_none \/ text.s = "" \/ Strip(text.s) = ""

assess_crisis_risk(text, context, user_history, sevs, current_hour, available, sentiment_ok) ==
    IF IsBlank(text) THEN Returned(minimal_risk_assessment)
    ELSE IF RiskFactorsRaise(context, user_history)
         THEN OnException(RiskFactorsError(context))
    ELSE IF AdjustmentsRaise(context, user_history)
         THEN OnException(AdjustmentsError(context))
    ELSE Returned(NormalAssessment(Strip(text.s), Scan(Strip(text.s)), context,
                                   user_history, sevs, current_hour, available,
                                   sentiment_ok))

\* the negation halving written back into the table
taxonomy_after_assess_halving(sevs, text) ==
    IF IsBlank(text) THEN sevs
    ELSE [name \in DOMAIN sevs |->
            IF \E i \in 1..Len(crisis_taxonomy) :
                   /\ LeafName(crisis_taxonomy[i]) = name
                   /\ Scan(Strip(text.s)).leaf_matches[i].found_keywords # <<>>
                   /\ Scan(Strip(text.s)).leaf_matches[i].is_negated
            THEN sevs[name] \div 2 ELSE sevs[name]]

\* the taxonomy after a call: severity is copied into a local before the
\* negation halving, the table itself is not written
taxonomy_after_assess(sevs, text) == sevs

(***************************************************************************)
(* The calls the model makes: contexts, histories, clock readings.         *)
(***************************************************************************)
Context(keys, nulls, mood_score, recent_mood_decline, emotions) ==
    [is_none |-> FALSE, keys |-> keys, nulls |-> nulls,
     num |-> [mood_score |-> mood_score],
     flag |-> [recent_mood_decline |-> recent_mood_decline],
     emotions |-> emotions]

NoContext == [Context({}, {}, 5, FALSE, <<>>) EXCEPT !.is_none = TRUE]

Contexts ==
    {NoContext,
     Context({"mood_score"}, {}, 2, FALSE, <<>>),
     Context({"mood_score", "recent_mood_decline", "emotions"}, {}, 4, TRUE,
             <<"sad", "hopeless", "trapped">>),
     Context({"mood_score"}, {"mood_score"}, 0, FALSE, <<>>)}

History(keys, nulls, previous_attempts, crisis_incidents_last_month, previous_crisis_incidents, recent_major_loss, substance_abuse_history) ==
    [is_none |-> FALSE, keys |-> keys, nulls |-> nulls,
     num |-> [previous_attempts |-> previous_attempts,
              crisis_incidents_last_month |-> crisis_incidents_last_month,
              previous_crisis_incidents |-> previous_crisis_incidents],
     flag |-> [recent_major_loss |-> recent_major_loss,
               substance_abuse_history |-> substance_abuse_history],
     emotions |-> <<>>]

NoHistory == [History({}, {}, 0, 0, 0, FALSE, FALSE) EXCEPT !.is_none = TRUE]

Histories ==
    {NoHistory,
     History({}, {}, 0, 0, 0, FALSE, FALSE),
     History({"previous_attempts", "crisis_incidents_last_month",
              "previous_crisis_incidents", "recent_major_loss"}, {}, 1, 3, 2, TRUE, FALSE),
     History({"previous_attempts"}, {"previous_attempts"}, 0, 0, 0, FALSE, FALSE)}

\* the hours the clock is read at: both edges of the late-night window
ClockHours == {6, 7, 21, 22}

InitialSeverities ==
    [name \in LeafNames |->
        crisis_taxonomy[CHOOSE i \in 1..Len(crisis_taxonomy) :
                            LeafName(crisis_taxonomy[i]) = name].severity]

(***************************************************************************)
(* The engine and its callers.                                             *)
(***************************************************************************)
NoCall == [op |-> "none"]

NoProbe == [op |-> "none"]

\* the most requests that are being served at once
MaxCalls == 2

Callers == 1..MaxCalls

\* a caller that is not awaiting an assessment
IdleCall == [pc |-> "idle"]

\* no request answered yet
NoResponse == [kind |-> "none"]

\* active_connections: Dict[str, WebSocket] = {}
NoConnections == [user_id \in {} |-> 0]

Init ==
    /\ hour \in ClockHours
    /\ crisis_loaded = FALSE
    /\ sentiment_up \in BOOLEAN
    /\ severity_of = InitialSeverities
    /\ last = NoCall
    /\ probe = NoProbe
    /\ calls = [c \in Callers |-> IdleCall]
    /\ crisis_incidents = <<>>
    /\ response = NoResponse
    /\ active_connections = NoConnections
    /\ sockets = <<>>

\* one await crisis_detector.assess_crisis_risk(text, context, user_history),
\* as the caller sees it; previous is what the caller keeps of its earlier
\* call with the same arguments, NoCall when there is none
Call(text, context, user_history, previous) ==
    /\ last' = [op           |-> "assess",
                text         |-> text,
                context      |-> context,
                user_history |-> user_history,
                hour         |-> hour,
                available    |-> crisis_loaded,
                result       |-> assess_crisis_risk(text, context, user_history,
                                     severity_of, hour, crisis_loaded, sentiment_up),
                previous     |-> previous]
    /\ severity_of' = taxonomy_after_assess(severity_of, text)
    /\ UNCHANGED <<hour, crisis_loaded, sentiment_up, probe, calls, server>>

\* a caller assesses a text
Assess ==
    /\ last = NoCall
    /\ \E text \in Texts, context \in Contexts, user_history \in Histories :
            Call(text, context, user_history, NoCall)

\* another caller has a text assessed in between; its result goes elsewhere
AssessOther ==
    /\ last # NoCall
    /\ \E text \in Texts :
            severity_of' = taxonomy_after_assess(severity_of, text)
    /\ UNCHANGED <<hour, crisis_loaded, sentiment_up, last, probe, calls, server>>

\* the caller assesses the same text, context and history once more
AssessAgain ==
    /\ last # NoCall
    /\ Call(last.text, last.context, last.user_history,
            [hour |-> last.hour, available |-> last.available, result |-> last.result])

\* the caller drops the assessment
Discard ==
    /\ last # NoCall
    /\ last' = NoCall
    /\ UNCHANGED <<hour, crisis_loaded, sentiment_up, severity_of, probe, calls, server>>

\* the wall clock moves on
Tick ==
    /\ \E h \in ClockHours : h # hour /\ hour' = h
    /\ UNCHANGED <<crisis_loaded, sentiment_up, severity_of, last, probe, calls, server>>

\* ModelManager._load_crisis_model registers the rule-based detector
LoadCrisisModel ==
    /\ ~crisis_loaded
    /\ crisis_loaded' = TRUE
    /\ UNCHANGED <<hour, sentiment_up, severity_of, last, probe, calls, server>>

Next == Assess \/ AssessOther \/ AssessAgain \/ Discard \/ Tick \/ LoadCrisisModel

Spec == Init /\ [][Next]_vars

(***************************************************************************)
(* The scoring helpers applied directly: _calculate_base_risk_score and    *)
(* _apply_contextual_adjustments to lists of indicators,                   *)
(* _determine_risk_level to scores.                                        *)
(***************************************************************************)
\* scores are probed at the multiples of 1 / ScoreSteps
ScoreSteps == 200

\* the longest list of indicators a probe starts from
MaxIndicators == 2

Indicator(category, severity, confidence, urgency_level) ==
    [category       |-> category,
     severity       |-> severity,
     keywords_found |-> <<>>,
     confidence     |-> confidence,
     urgency_level  |-> urgency_level]

IndicatorGrid ==
    {Indicator("probe", severity, confidence, urgency_level) :
        severity \in {300, 600, 1000},
        confidence \in {Frac(1, 10), One},
        urgency_level \in {"low", "immediate"}}

\* the lists as _detect_crisis_indicators hands them on: by falling severity
IndicatorLists ==
    {l \in UNION {[1..k -> IndicatorGrid] : k \in 0..MaxIndicators} :
        \A i \in 1..(Len(l) - 1) : l[i].severity >= l[i + 1].severity}

\* the one or two indicators a list is extended by
AddedLists ==
    {<<a>> : a \in IndicatorGrid}
    \cup {l \in {<<a, b>> : a, b \in IndicatorGrid} : l[1].severity >= l[2].severity}

\* the categories of the lists _determine_risk_level is probed with
LevelCategoryLists ==
    {<<>>,
     <<"imminent_danger_suicide_explicit">>,
     <<"high_risk_ideation_hopelessness_severe", "imminent_danger_self_harm_immediate">>,
     <<"imminent_danger_method_specific", "temporal_urgency_immediate">>}

\* the text, context and history the adjustments are probed under
ProbeCases ==
    {[text |-> "fine", context |-> NoContext, user_history |-> NoHistory],
     [text |-> "fine",
      context |-> Context({"mood_score"}, {}, 4, FALSE, <<>>),
      user_history |-> NoHistory],
     [text |-> "drunk again",
      context |-> Context({"mood_score"}, {}, 2, FALSE, <<>>),
      user_history |-> History({}, {}, 0, 0, 0, FALSE, FALSE)],
     [text |-> "no plan, high hopes",
      context |-> NoContext,
      user_history |-> History({"previous_attempts"}, {}, 1, 0, 0, FALSE, FALSE)]}

\* _calculate_base_risk_score followed by _apply_contextual_adjustments
Score(indicators, case) ==
    apply_contextual_adjustments(calculate_base_risk_score(indicators),
                                 Scan(case.text), case.context, case.user_history)

ProbeLevel ==
    /\ probe = NoProbe
    /\ \E k \in 0..ScoreSteps, categories \in LevelCategoryLists :
          probe' =
            [op         |-> "level",
             risk_score |-> Frac(k, ScoreSteps),
             categories |-> categories,
             risk_level |->
                determine_risk_level(
                    Frac(k, ScoreSteps),
                    [i \in 1..Len(categories) |->
                        Indicator(categories[i], 500, One, "medium")])]
    /\ UNCHANGED <<hour, crisis_loaded, sentiment_up, severity_of, last, calls, server>>

ProbeScore ==
    /\ probe = NoProbe
    /\ \E indicators \in IndicatorLists, case \in ProbeCases :
          probe' = [op         |-> "score",
                    indicators |-> indicators,
                    case       |-> case,
                    base_score |-> calculate_base_risk_score(indicators),
                    risk_score |-> Score(indicators, case)]
    /\ UNCHANGED <<hour, crisis_loaded, sentiment_up, severity_of, last, calls, server>>

\* the score of the list with further indicators in it
ProbeExtend ==
    /\ probe.op = "score"
    /\ \E added \in AddedLists :
          probe' = [op         |-> "extend",
                    indicators |-> probe.indicators,
                    added      |-> added,
                    case       |-> probe.case,
                    before     |-> probe.risk_score,
                    risk_score |->
                        Score(SortBySeverityDesc(probe.indicators \o added), probe.case)]
    /\ UNCHANGED <<hour, crisis_loaded, sentiment_up, severity_of, last, calls, server>>

\* the score of the list with the severity of one indicator raised
ProbeRaiseSeverity ==
    /\ probe.op = "score"
    /\ \E i \in 1..Len(probe.indicators), to \in IndicatorGrid :
          /\ to.severity > probe.indicators[i].severity
          /\ probe' = [op         |-> "raise_severity",
                       indicators |-> probe.indicators,
                       index      |-> i,
                       severity   |-> to.severity,
                       case       |-> probe.case,
                       before     |-> probe.risk_score,
                       risk_score |->
                           Score([probe.indicators EXCEPT ![i].severity = to.severity],
                                 probe.case)]
    /\ UNCHANGED <<hour, crisis_loaded, sentiment_up, severity_of, last, calls, server>>

\* the score of the list with the confidence of one indicator raised
ProbeRaiseConfidence ==
    /\ probe.op = "score"
    /\ \E i \in 1..Len(probe.indicators), to \in IndicatorGrid :
          /\ FracLess(probe.indicators[i].confidence, to.confidence)
          /\ probe' = [op         |-> "raise_confidence",
                       indicators |-> probe.indicators,
                       index      |-> i,
                       confidence |-> to.confidence,
                       case       |-> probe.case,
                       before     |-> probe.risk_score,
                       risk_score |->
                           Score([probe.indicators EXCEPT ![i].confidence = to.confidence],
                                 probe.case)]
    /\ UNCHANGED <<hour, crisis_loaded, sentiment_up, severity_of, last, calls, server>>

\* indicators as the detectors emit them for one pass: two categories,
\* each possibly more than once
DetectedGrid ==
    {[category       |-> category,
      severity       |-> severity,
      keywords_found |-> keywords_found,
      confidence     |-> confidence,
      urgency_level  |-> "high"] :
        category \in {"method_pattern_specific_method", "ai_sentiment_crisis"},
        severity \in {450, 800},
        keywords_found \in {<<"pills">>, <<"rope", "gun">>},
        confidence \in {Frac(7, 10), Frac(8, 10)}}

DetectedLists == UNION {[1..k -> DetectedGrid] : k \in 0..(MaxIndicators + 1)}

\* what the four detectors emit for a text, before deduplication
RawIndicators(scan) ==
    detect_keyword_indicators(scan.leaf_matches, InitialSeverities)
    \o scan.pattern \o scan.contextual \o scan.ai[TRUE]

\* the last two statements of _detect_crisis_indicators on a list
ProbeDedup ==
    /\ probe = NoProbe
    /\ \E indicators \in DetectedLists \cup {RawIndicators(Scan(Strip(x.s))) : x \in Texts} :
          probe' = [op         |-> "dedup",
                    indicators |-> indicators,
                    unique     |-> deduplicate_indicators(indicators),
                    ranked     |-> SortBySeverityDesc(deduplicate_indicators(indicators))]
    /\ UNCHANGED <<hour, crisis_loaded, sentiment_up, severity_of, last, calls, server>>

\* the base scores, contexts and histories _apply_contextual_adjustments is
\* applied to on its own: every field present and absent, on both sides of
\* its threshold
AdjustBases == {0, 150, 465, 700, 1000}

AdjustContexts ==
    {NoContext,
     Context({"mood_score"}, {}, 2, FALSE, <<>>),
     Context({"mood_score"}, {}, 3, FALSE, <<>>),
     Context({"mood_score"}, {}, 4, FALSE, <<>>),
     Context({"mood_score"}, {}, 5, FALSE, <<>>),
     Context({"recent_mood_decline"}, {}, 5, TRUE, <<>>),
     Context({"mood_score", "recent_mood_decline"}, {}, 1, TRUE, <<>>),
     Context({"mood_score", "recent_mood_decline"}, {}, 4, FALSE, <<>>)}

AdjustHistories ==
    {NoHistory,
     History({"previous_attempts"}, {}, 1, 0, 0, FALSE, FALSE),
     History({"previous_attempts"}, {}, 0, 0, 0, FALSE, FALSE),
     History({"crisis_incidents_last_month"}, {}, 0, 3, 0, FALSE, FALSE),
     History({"crisis_incidents_last_month"}, {}, 0, 2, 0, FALSE, FALSE),
     History({"previous_attempts", "crisis_incidents_last_month"}, {}, 2, 3, 0,
             FALSE, FALSE)}

\* _apply_contextual_adjustments(base_score, text, context, user_history)
ProbeAdjust ==
    /\ probe = NoProbe
    /\ \E base_score \in AdjustBases, text \in ProbeTexts,
          context \in AdjustContexts, user_history \in AdjustHistories :
          probe' = [op           |-> "adjust",
                    base_score   |-> base_score,
                    text         |-> text,
                    context      |-> context,
                    user_history |-> user_history,
                    risk_score   |->
                        apply_contextual_adjustments(base_score, Scan(text),
                                                     context, user_history)]
    /\ UNCHANGED <<hour, crisis_loaded, sentiment_up, severity_of, last, calls, server>>

\* the most keywords of one leaf a probe takes as found
MaxMatched == 3

\* the keywords of a leaf at the positions picked, in the order of the leaf
KeywordsAt(keywords, picked) ==
    [n \in 1..Cardinality(picked) |->
        keywords[CHOOSE i \in picked : Cardinality({j \in picked : j < i}) = n - 1]]

\* _calculate_keyword_confidence(text, found_keywords, all_keywords) for the
\* keywords of one leaf that a text can hold, as the double loop passes them
ProbeConfidence ==
    /\ probe = NoProbe
    /\ \E l \in 1..Len(crisis_taxonomy) :
       \E picked \in SUBSET (1..Len(crisis_taxonomy[l].keywords)) :
          /\ Cardinality(picked) \in 1..MaxMatched
          /\ probe' =
               [op             |-> "confidence",
                leaf           |-> LeafName(crisis_taxonomy[l]),
                all_keywords   |-> crisis_taxonomy[l].keywords,
                found_keywords |-> KeywordsAt(crisis_taxonomy[l].keywords, picked),
                confidence     |->
                    calculate_keyword_confidence(
                        KeywordsAt(crisis_taxonomy[l].keywords, picked),
                        crisis_taxonomy[l].keywords)]
    /\ UNCHANGED <<hour, crisis_loaded, sentiment_up, severity_of, last, calls, server>>

\* _detect_keyword_indicators(text_lower) on a text of its own
ProbeNegation ==
    /\ probe = NoProbe
    /\ \E text \in NegationTexts :
          /\ probe' = [op         |-> "negation",
                       text       |-> text,
                       indicators |->
                           detect_keyword_indicators(Scan(text).leaf_matches,
                                                     severity_of)]
          /\ severity_of' = taxonomy_after_assess(severity_of, Str(text))
    /\ UNCHANGED <<hour, crisis_loaded, sentiment_up, last, calls, server>>

ProbeClear ==
    /\ probe # NoProbe
    /\ probe' = NoProbe
    /\ UNCHANGED <<hour, crisis_loaded, sentiment_up, severity_of, last, calls, server>>

ScoreInit == Init /\ hour = 7 /\ sentiment_up

ScoreNext ==
    \/ ProbeLevel
    \/ ProbeScore
    \/ ProbeExtend
    \/ ProbeRaiseSeverity
    \/ ProbeRaiseConfidence
    \/ ProbeDedup
    \/ ProbeAdjust
    \/ ProbeConfidence
    \/ ProbeNegation
    \/ ProbeClear

ScoreSpec == ScoreInit /\ [][ScoreNext]_vars

(***************************************************************************)
(* Requests served at once: the coroutines of assess_crisis_risk on the    *)
(* one crisis_detector, each suspended at an await or running to its next. *)
(***************************************************************************)
ConcurrentTexts ==
    {Str("  \n "),
     Str("pills in hand"),
     Str("it is all pointless and meaningless, I give up")}

ConcurrentContexts ==
    {Context({"mood_score"}, {}, 2, FALSE, <<>>),
     Context({"mood_score"}, {"mood_score"}, 0, FALSE, <<>>)}

\* one list of indicators for all the calls of the detector
extend_indicators_shared(cs, c, found) ==
    [d \in DOMAIN cs |->
        IF cs[d].pc \in {"detect", "ai"}
        THEN [cs[d] EXCEPT !.indicators = @ \o found] ELSE cs[d]]

\* indicators.extend(found): indicators is a local of the call
extend_indicators(cs, c, found) == [cs EXCEPT ![c].indicators = @ \o found]

\* the other calls that sit at an await while call c runs
Overtake(cs, c) ==
    [d \in DOMAIN cs |->
        IF d # c /\ cs[d].pc \in {"detect", "ai"}
        THEN [cs[d] EXCEPT !.overtaken = TRUE] ELSE cs[d]]

\* the rest of the try block once the indicators are gathered
body_after_detection(call, scan, current_hour) ==
    IF RiskFactorsRaise(call.context, call.user_history)
    THEN OnException(RiskFactorsError(call.context))
    ELSE IF AdjustmentsRaise(call.context, call.user_history)
    THEN OnException(AdjustmentsError(call.context))
    ELSE Returned(AssessmentOfIndicators(
            SortBySeverityDesc(deduplicate_indicators(call.indicators)),
            scan, call.context, call.user_history, current_hour,
            Len(Strip(call.text.s))))

\* call c runs from the end of detection to its return statement
Complete(cs, c, current_hour) ==
    [cs EXCEPT ![c] =
        [pc           |-> "done",
         text         |-> @.text,
         context      |-> @.context,
         user_history |-> @.user_history,
         overtaken    |-> @.overtaken,
         result       |-> body_after_detection(@, Scan(Strip(@.text.s)), current_hour)]]

\* a request comes in: the guard on blank text, then the await of
\* _detect_crisis_indicators
Enter(c) ==
    /\ calls[c].pc = "idle"
    /\ \E text \in ConcurrentTexts, context \in ConcurrentContexts :
          calls' = [calls EXCEPT ![c] =
                      IF IsBlank(text)
                      THEN [pc           |-> "done",
                            text         |-> text,
                            context      |-> context,
                            user_history |-> NoHistory,
                            overtaken    |-> FALSE,
                            result       |-> Returned(minimal_risk_assessment)]
                      ELSE [pc           |-> "detect",
                            text         |-> text,
                            context      |-> context,
                            user_history |-> NoHistory,
                            overtaken    |-> FALSE,
                            indicators   |-> <<>>]]
    /\ UNCHANGED <<hour, crisis_loaded, sentiment_up, severity_of, last, probe, server>>

\* the keyword, pattern and contextual detectors; then the await of
\* _detect_ai_indicators when the crisis model is registered, the rest of
\* the call when it is not
DetectOf(c, scan) ==
    /\ calls' =
         IF crisis_loaded
         THEN [Overtake(extend_indicators(calls, c,
                    detect_keyword_indicators(scan.leaf_matches, severity_of)
                    \o scan.pattern \o scan.contextual), c)
                 EXCEPT ![c].pc = "ai"]
         ELSE Complete(Overtake(extend_indicators(calls, c,
                    detect_keyword_indicators(scan.leaf_matches, severity_of)
                    \o scan.pattern \o scan.contextual), c), c, hour)
    /\ severity_of' = taxonomy_after_assess(severity_of, calls[c].text)
    /\ UNCHANGED <<hour, crisis_loaded, sentiment_up, last, probe, server>>

Detect(c) ==
    /\ calls[c].pc = "detect"
    /\ DetectOf(c, Scan(Strip(calls[c].text.s)))

\* the sentiment analysis hands back its result: the rest of the call
Resume(c) ==
    /\ calls[c].pc = "ai"
    /\ calls' = Complete(Overtake(extend_indicators(calls, c,
                    Scan(Strip(calls[c].text.s)).ai[sentiment_up]), c), c, hour)
    /\ UNCHANGED <<hour, crisis_loaded, sentiment_up, severity_of, last, probe, server>>

\* the caller takes the assessment
Return(c) ==
    /\ calls[c].pc = "done"
    /\ calls' = [calls EXCEPT ![c] = IdleCall]
    /\ UNCHANGED <<hour, crisis_loaded, sentiment_up, severity_of, last, probe, server>>

ConcurrentNext ==
    \/ \E c \in Callers : Enter(c)
    \/ \E c \in Callers : Detect(c)
    \/ \E c \in Callers : Resume(c)
    \/ \E c \in Callers : Return(c)
    \/ Tick
    \/ LoadCrisisModel

ConcurrentSpec == Init /\ [][ConcurrentNext]_vars

(***************************************************************************)
(* CrisisManagementService: the assessment of a text, the incident row it  *)
(* leaves in the crisis_incidents table, the response it hands back.       *)
(***************************************************************************)
\* the most rows the table takes
MaxIncidents == 2

UserIds == {"1", "2"}

\* the texts and contexts the service is called with
ServiceTexts ==
    {Str(""), Str("fine"), Str("I would never kill myself"),
     Str("feeling a bit worthless")}

ServiceContexts == {NoContext, Context({"mood_score"}, {}, 2, FALSE, <<>>)}

\* the row _create_crisis_incident adds; mood_entry_id is left at its default
create_crisis_incident(assessment, user_id) ==
    [user_id                |-> user_id,
     mood_entry_id          |-> "None",
     risk_level             |-> assessment.risk_level,
     risk_score             |-> assessment.risk_score,
     risk_indicators        |->
        [i \in 1..Len(assessment.crisis_indicators) |->
            assessment.crisis_indicators[i].category],
     intervention_triggered |-> assessment.intervention_type # "none",
     intervention_type      |-> assessment.intervention_type]

\* actions_taken of _trigger_intervention
trigger_intervention(assessment) ==
    [type |-> assessment.intervention_type,
     actions_taken |->
        CASE assessment.intervention_type = "immediate_intervention" ->
                <<"Emergency alert generated", "Crisis resources provided",
                  "Immediate safety instructions given">>
          [] assessment.intervention_type = "emergency_services" ->
                <<"Emergency services recommendation provided",
                  "911 and crisis hotline numbers provided",
                  "Safety instructions given">>
          [] assessment.intervention_type = "crisis_contact" ->
                <<"Crisis hotline contact information provided",
                  "Professional support resources listed",
                  "Safety planning encouraged">>
          [] OTHER -> <<>>]

format_assessment_response(assessment) ==
    [risk_level            |-> assessment.risk_level,
     risk_score            |-> assessment.risk_score,
     intervention_required |-> assessment.intervention_type # "none",
     immediate_actions     |-> assessment.immediate_actions]

emergency_fallback_response ==
    [assessment |->
        [risk_level            |-> "unknown",
         risk_score            |-> Frac(1, 2),
         intervention_required |-> TRUE,
         immediate_actions     |->
            <<"System error occurred during crisis assessment",
              "As a precaution, call 988 if you're having thoughts of self-harm",
              "Seek immediate help if you're in crisis">>],
     intervention |->
        [type |-> "precautionary",
         actions_taken |-> <<"Precautionary crisis resources provided">>],
     immediate_action_required      |-> TRUE,
     emergency_services_recommended |-> FALSE]

\* the response dict of handle_crisis_assessment
service_response(assessment) ==
    [assessment   |-> format_assessment_response(assessment),
     intervention |-> trigger_intervention(assessment),
     immediate_action_required |-> assessment.risk_level \in {"imminent", "critical"},
     emergency_services_recommended |->
        assessment.intervention_type = "emergency_services"]

\* an incident is logged for every assessment, MINIMAL ones included
logs_incident_always(assessment, db) == db

\* `if assessment.risk_level != RiskLevel.MINIMAL and db:`
logs_incident(assessment, db) == assessment.risk_level # "minimal" /\ db

\* the body of handle_crisis_assessment from the assessment on: the table and
\* the response it leaves.  commit_ok is whether db.commit() goes through; when
\* it raises, _create_crisis_incident rolls back and raises again, and the
\* handler returns the fallback
serve_assessment(assessment, text, context, user_id, db, commit_ok, table) ==
    IF logs_incident(assessment, db) /\ ~commit_ok
    THEN [table    |-> table,
          response |-> [kind |-> "service", text |-> text, context |-> context,
                        user_id |-> user_id, db |-> db, commit_failed |-> TRUE,
                        assessment |-> assessment,
                        body |-> emergency_fallback_response]]
    ELSE [table    |-> IF logs_incident(assessment, db)
                       THEN Append(table, create_crisis_incident(assessment, user_id))
                       ELSE table,
          response |-> [kind |-> "service", text |-> text, context |-> context,
                        user_id |-> user_id, db |-> db, commit_failed |-> FALSE,
                        assessment |-> assessment,
                        body |-> service_response(assessment)]]

Served(outcome) ==
    /\ crisis_incidents' = outcome.table
    /\ response' = outcome.response

\* one await crisis_management_service.handle_crisis_assessment(text, user_id,
\* context=context, db=db)
HandleCrisisAssessment ==
    /\ Len(crisis_incidents) < MaxIncidents
    /\ \E text \in ServiceTexts, context \in ServiceContexts, user_id \in UserIds,
          db \in BOOLEAN, commit_ok \in BOOLEAN :
          /\ Served(serve_assessment(
                 assess_crisis_risk(text, context, NoHistory, severity_of, hour,
                                    crisis_loaded, sentiment_up).assessment,
                 text, context, user_id, db, commit_ok, crisis_incidents))
          /\ severity_of' = taxonomy_after_assess(severity_of, text)
    /\ UNCHANGED <<hour, crisis_loaded, sentiment_up, last, probe, calls,
                   active_connections, sockets>>

ServiceNext == HandleCrisisAssessment \/ LoadCrisisModel

\* the service is started once, in the daytime
ServiceInit == Init /\ hour = 7

ServiceSpec == ServiceInit /\ [][ServiceNext]_vars

(***************************************************************************)
(* main.py: the mood-tracking request and the WebSocket registry.          *)
(***************************************************************************)
\* the most WebSockets that are ever opened
MaxSockets == 2

\* the notes and scores of the mood entries posted
TrackNotes ==
    {NoText, Str("fine"), Str("feeling a bit worthless"),
     Str("I would never kill myself")}

TrackScores == {2, 3, 8}

\* analysis_context of track_mood_complete_ai: mood_score and emotions are the
\* keys the detector reads
analysis_context(score) == Context({"mood_score", "emotions"}, {}, score, FALSE, <<"sad">>)

\* the CompleteAIAnalysisResponse of perform_basic_analysis
perform_basic_analysis(score) ==
    [crisis_assessment |->
        [risk_level            |-> IF score <= 3 THEN "medium" ELSE "low",
         risk_score            |-> IF score <= 3 THEN Frac(3, 10) ELSE Frac(1, 10),
         intervention_required |-> score <= 2],
     risk_level            |-> IF score <= 3 THEN "medium" ELSE "low",
     intervention_required |-> score <= 2,
     analysis_quality      |-> "basic"]

\* with the AI modules the three analyses are awaited and the response model
\* is built from them; emotion_classifier.analyze_emotions returns an
\* EmotionAnalysis object on every path, the field emotion_analysis is a
\* Dict[str, Any], the constructor raises, and the handler falls back to
\* perform_basic_analysis
perform_complete_ai_analysis(score, ai_modules_available) ==
    perform_basic_analysis(score)

\* the row handle_crisis_intervention_complete adds
handle_crisis_intervention_complete(ai_analysis, user_id) ==
    [user_id                |-> user_id,
     mood_entry_id          |-> "id",
     risk_level             |-> ai_analysis.risk_level,
     risk_score             |-> ai_analysis.crisis_assessment.risk_score,
     risk_indicators        |-> <<>>,
     intervention_triggered |-> TRUE,
     intervention_type      |-> "complete_ai_analysis"]

\* the registry and the sockets after notify_websocket_complete_ai(user_id, ..):
\* send_text on the registered socket, the entry popped when it raises
notify_websocket_complete_ai(user_id, registry, socks) ==
    IF user_id \notin DOMAIN registry
    THEN [registry |-> registry, socks |-> socks, sent_to |-> {}]
    ELSE IF socks[registry[user_id]].state = "open"
    THEN [registry |-> registry,
          socks    |-> [socks EXCEPT ![registry[user_id]].inbox =
                                        @ \cup {"complete_ai_mood_tracked"}],
          sent_to  |-> {registry[user_id]}]
    ELSE [registry |-> [u \in DOMAIN registry \ {user_id} |-> registry[u]],
          socks    |-> socks,
          sent_to  |-> {}]

\* the request from the analysis on.  commit_ok is whether the commits of the
\* request's session go through: when the first raises, the handler of
\* handle_crisis_intervention_complete returns its error dict, the commit of
\* the endpoint raises as well and the request ends in HTTP 500
track_with_analysis(ai_analysis, detector_level, user_id, notes, score, ai_modules_available, commit_ok, table, notified) ==
    IF ~commit_ok
    THEN [table    |-> table,
          registry |-> active_connections,
          socks    |-> sockets,
          response |-> [kind |-> "track", user_id |-> user_id, notes |-> notes,
                        score |-> score,
                        ai_modules_available |-> ai_modules_available,
                        detector_level |-> detector_level,
                        status |-> 500]]
    ELSE [table    |-> IF ai_analysis.crisis_assessment.intervention_required
                       THEN Append(table,
                                handle_crisis_intervention_complete(ai_analysis, user_id))
                       ELSE table,
          registry |-> notified.registry,
          socks    |-> notified.socks,
          response |-> [kind |-> "track", user_id |-> user_id, notes |-> notes,
                        score |-> score,
                        ai_modules_available |-> ai_modules_available,
                        detector_level |-> detector_level,
                        status |-> 200,
                        risk_level |-> ai_analysis.risk_level,
                        intervention_required |-> ai_analysis.intervention_required,
                        intervention_triggered |->
                            ai_analysis.crisis_assessment.intervention_required,
                        notified |-> notified.sent_to]]

\* one POST /api/mood/track-complete
Track(user_id, notes, score, ai_modules_available, commit_ok) ==
    /\ Len(crisis_incidents) < MaxIncidents
    /\ LET done == track_with_analysis(
                       perform_complete_ai_analysis(score, ai_modules_available),
                       IF ai_modules_available
                       THEN assess_crisis_risk(
                                IF notes.is_none THEN Str("") ELSE notes,
                                analysis_context(score), NoHistory, severity_of, hour,
                                crisis_loaded, sentiment_up).assessment.risk_level
                       ELSE "not assessed",
                       user_id, notes, score, ai_modules_available, commit_ok,
                       crisis_incidents,
                       notify_websocket_complete_ai(user_id, active_connections, sockets))
       IN  /\ crisis_incidents' = done.table
           /\ active_connections' = done.registry
           /\ sockets' = done.socks
           /\ response' = done.response
    /\ severity_of' = IF ai_modules_available
                      THEN taxonomy_after_assess(severity_of, notes)
                      ELSE severity_of
    /\ UNCHANGED <<hour, crisis_loaded, sentiment_up, last, probe, calls>>

TrackMoodCompleteAI ==
    \E user_id \in UserIds, notes \in TrackNotes, score \in TrackScores,
       ai_modules_available \in BOOLEAN, commit_ok \in BOOLEAN :
        Track(user_id, notes, score, ai_modules_available, commit_ok)

TrackNext == TrackMoodCompleteAI \/ LoadCrisisModel

\* the server starts with the clock and the sentiment analyzer as they are
\* when the scoring helpers are probed
ServerInit == Init /\ hour = 7 /\ sentiment_up

TrackSpec == ServerInit /\ [][TrackNext]_vars

\* a WebSocket is [user_id, state, inbox]: "accepting" while accept() is
\* awaited, "open" from then on, "lost" when the peer is gone and receive_text
\* has not raised yet, "closed" once the endpoint has returned; inbox is the
\* set of message types sent to it
\* a client opens /ws/{user_id}: the endpoint starts and awaits accept()
Connect ==
    /\ Len(sockets) < MaxSockets
    /\ \E user_id \in UserIds :
          sockets' = Append(sockets, [user_id |-> user_id, state |-> "accepting",
                                      inbox |-> {}])
    /\ UNCHANGED <<hour, crisis_loaded, sentiment_up, severity_of, last, probe, calls,
                   crisis_incidents, response, active_connections>>

\* active_connections[user_id] = websocket
register(registry, user_id, ws) ==
    [u \in DOMAIN registry \cup {user_id} |-> IF u = user_id THEN ws ELSE registry[u]]

\* `if user_id in active_connections: del active_connections[user_id]`
unregister(registry, user_id) ==
    [u \in DOMAIN registry \ {user_id} |-> registry[u]]

\* accept() returns: the socket is registered under its user and greeted
Accept(ws) ==
    /\ sockets[ws].state = "accepting"
    /\ active_connections' = register(active_connections, sockets[ws].user_id, ws)
    /\ sockets' = [sockets EXCEPT ![ws].state = "open",
                                  ![ws].inbox = {"connection_established"}]
    /\ UNCHANGED <<hour, crisis_loaded, sentiment_up, severity_of, last, probe, calls,
                   crisis_incidents, response>>

\* the peer leaves before accept() returns: accept raises outside the try, the
\* finally block is not entered
Abandon(ws) ==
    /\ sockets[ws].state = "accepting"
    /\ sockets' = [sockets EXCEPT ![ws].state = "closed"]
    /\ UNCHANGED <<hour, crisis_loaded, sentiment_up, severity_of, last, probe, calls,
                   crisis_incidents, response, active_connections>>

\* receive_text returns a ping: the loop answers with a pong
Ping(ws) ==
    /\ sockets[ws].state = "open"
    /\ sockets' = [sockets EXCEPT ![ws].inbox = @ \cup {"pong"}]
    /\ UNCHANGED <<hour, crisis_loaded, sentiment_up, severity_of, last, probe, calls,
                   crisis_incidents, response, active_connections>>

\* the peer goes away; the endpoint still awaits receive_text
Lose(ws) ==
    /\ sockets[ws].state = "open"
    /\ sockets' = [sockets EXCEPT ![ws].state = "lost"]
    /\ UNCHANGED <<hour, crisis_loaded, sentiment_up, severity_of, last, probe, calls,
                   crisis_incidents, response, active_connections>>

\* receive_text raises WebSocketDisconnect: the finally block deletes the
\* entry of the socket's user, whichever socket it holds
Disconnect(ws) ==
    /\ sockets[ws].state \in {"open", "lost"}
    /\ active_connections' = unregister(active_connections, sockets[ws].user_id)
    /\ sockets' = [sockets EXCEPT ![ws].state = "closed"]
    /\ UNCHANGED <<hour, crisis_loaded, sentiment_up, severity_of, last, probe, calls,
                   crisis_incidents, response>>

\* a mood entry is tracked while sockets are open: the request that leaves no
\* incident, with its notification
TrackAndNotify == \E user_id \in UserIds : Track(user_id, Str("fine"), 8, TRUE, TRUE)

SocketNext ==
    \/ Connect
    \/ \E ws \in 1..Len(sockets) : Accept(ws)
    \/ \E ws \in 1..Len(sockets) : Abandon(ws)
    \/ \E ws \in 1..Len(sockets) : Ping(ws)
    \/ \E ws \in 1..Len(sockets) : Lose(ws)
    \/ \E ws \in 1..Len(sockets) : Disconnect(ws)
    \/ TrackAndNotify

SocketSpec == ServerInit /\ [][SocketNext]_vars

(***************************************************************************)
(* Properties of the assessments the callers receive.                      *)
(***************************************************************************)
Assessed == last.op = "assess"

\* the call handed an assessment back
Delivered == Assessed /\ ~last.result.raised

\* the try block ran to its end
RanToEnd ==
    /\ Delivered
    /\ last.result.assessment.assessment_metadata.assessment_method
         = "multi_layered_analysis"

AllWhitespace(s) == \A i \in 1..Len(s) : Chr(s, i) \in {" ", "\t", "\n", "\r"}

BlankInput == last.text.is_none \/ AllWhitespace(last.text.s)

InterventionLookup ==
    [imminent |-> "immediate_intervention",
     critical |-> "emergency_services",
     high     |-> "crisis_contact",
     medium   |-> "professional_referral",
     low      |-> "self_help",
     minimal  |-> "none"]

\* C2: every assessment handed back, on the normal, the empty-input and the
\* error path, has the intervention type its risk level is mapped to
InterventionMatchesRiskLevel ==
    Delivered =>
        /\ last.result.assessment.risk_level \in DOMAIN InterventionLookup
        /\ last.result.assessment.intervention_type
             = InterventionLookup[last.result.assessment.risk_level]

\* a HIGH assessment of the normal path, with crisis_contact
HighRiskGetsCrisisContact ==
    /\ RanToEnd
    /\ last.result.assessment.risk_level = "high"
    /\ last.result.assessment.intervention_type = "crisis_contact"

\* the text holds, in any letter case, a keyword of one of the two leaves
HasImminentKeyword(s) ==
    \E i \in 1..Len(crisis_taxonomy) :
        /\ crisis_taxonomy[i].category = "imminent_danger"
        /\ crisis_taxonomy[i].subcategory \in {"suicide_explicit", "self_harm_immediate"}
        /\ AnyIn(crisis_taxonomy[i].keywords, Lower(s))

\* C3: a text with a keyword of the suicide-explicit or the self-harm-immediate
\* leaf is assessed IMMINENT under every context and history, whatever the
\* score, when no step raised
ImminentOverride ==
    (RanToEnd /\ HasImminentKeyword(last.text.s))
        => last.result.assessment.risk_level = "imminent"

\* such a text assessed IMMINENT with a score below 0.95
ImminentBelowThreshold ==
    /\ RanToEnd
    /\ HasImminentKeyword(last.text.s)
    /\ last.result.assessment.risk_level = "imminent"
    /\ FracLess(last.result.assessment.risk_score, Frac(95, 100))

\* a dict that holds None where the try block compares a number
HoldsNone(d, keys) == ~d.is_none /\ d.keys # {} /\ d.nulls \cap keys # {}

StepFails ==
    /\ ~BlankInput
    /\ \/ HoldsNone(last.context, {"mood_score"})
       \/ HoldsNone(last.user_history,
                    {"previous_attempts", "crisis_incidents_last_month",
                     "previous_crisis_incidents"})

TypeErrorMessages ==
    {"'<=' not supported between instances of 'NoneType' and 'int'",
     "'>' not supported between instances of 'NoneType' and 'int'"}

\* C4: no call raises to its caller; when a step of the try block fails, the
\* call hands back MINIMAL, score 0, NONE, no indicators and the message of
\* the exception under assessment_metadata['error']
NeverRaises ==
    Assessed =>
        /\ ~last.result.raised
        /\ StepFails =>
            /\ last.result.assessment.risk_level = "minimal"
            /\ last.result.assessment.risk_score = Frac(0, 1)
            /\ last.result.assessment.intervention_type = "none"
            /\ last.result.assessment.crisis_indicators = <<>>
            /\ "error" \in DOMAIN last.result.assessment.assessment_metadata
            /\ last.result.assessment.assessment_metadata.error \in TypeErrorMessages

\* the adjustment step failed on a history holding None, on a text that has
\* indicators, and the caller got the error assessment
AdjustmentFailureHandedBack ==
    /\ Delivered
    /\ StepFails
    /\ ~HoldsNone(last.context, {"mood_score"})
    /\ HasImminentKeyword(last.text.s)
    /\ last.result.assessment.assessment_metadata.error
         = "'>' not supported between instances of 'NoneType' and 'int'"

\* C5: the risk_score handed back lies in [0, 1]
ScoreWithinBounds ==
    Delivered =>
        /\ last.result.assessment.risk_score.d > 0
        /\ last.result.assessment.risk_score.n >= 0
        /\ last.result.assessment.risk_score.n <= last.result.assessment.risk_score.d

\* a base score below 1 that the multipliers carried to the cap
ScoreCapped ==
    /\ RanToEnd
    /\ last.result.assessment.risk_score = One
    /\ calculate_base_risk_score(last.result.assessment.crisis_indicators) < 1000
    /\ Truthy(last.context)
    /\ Truthy(last.user_history)

\* C6: None, the empty and the whitespace-only text are answered before any
\* detector runs, with MINIMAL, NONE, score 0 and no indicators, whatever the
\* context and the history
EmptyInputIsMinimal ==
    (Assessed /\ BlankInput) =>
        /\ ~last.result.raised
        /\ last.result.assessment.risk_level = "minimal"
        /\ last.result.assessment.intervention_type = "none"
        /\ last.result.assessment.risk_score = Frac(0, 1)
        /\ last.result.assessment.crisis_indicators = <<>>
        /\ last.result.assessment.assessment_metadata.assessment_method
             = "minimal_default"
        /\ last.result.assessment.assessment_metadata.error = "Empty or invalid input"

\* a whitespace-only text answered so under a context the try block fails on
WhitespaceShortCircuits ==
    /\ Delivered
    /\ ~last.text.is_none
    /\ last.text.s # ""
    /\ AllWhitespace(last.text.s)
    /\ HoldsNone(last.context, {"mood_score"})
    /\ last.result.assessment.assessment_metadata.error = "Empty or invalid input"

\* C7: the text "Feeling okay today, just a bit tired", without context, is
\* assessed MINIMAL with no indicators
BenignTextIsMinimal ==
    (Delivered /\ last.text = Str("Feeling okay today, just a bit tired")
               /\ last.context = NoContext)
        => /\ last.result.assessment.risk_level = "minimal"
           /\ last.result.assessment.crisis_indicators = <<>>

Repeated == Assessed /\ last.previous # NoCall

\* C10 as stated: a call repeated with the same text, context and history
\* hands back the same assessment whatever happened in between
RepeatedCallAgreesAlways ==
    Repeated => last.result = last.previous.result

\* C10: a call repeated with the same text, context and history hands back the
\* same assessment when both calls read the clock on the same side of the
\* 22:00-06:00 window and found the crisis model equally available; no call
\* changes the taxonomy
RepeatedCallAgrees ==
    /\ severity_of = InitialSeverities
    /\ (Repeated /\ IsLateNight(last.hour) = IsLateNight(last.previous.hour)
                 /\ last.available = last.previous.available)
          => last.result = last.previous.result

\* a repeated call at another hour on the same side of the window, with risk
\* factors and indicators in its assessment and the taxonomy as it was
RepeatedAtAnotherHour ==
    /\ Repeated
    /\ RanToEnd
    /\ last.hour # last.previous.hour
    /\ IsLateNight(last.hour) = IsLateNight(last.previous.hour)
    /\ last.available = last.previous.available
    /\ last.result.assessment.risk_factors # <<>>
    /\ last.result.assessment.crisis_indicators # <<>>
    /\ last.result = last.previous.result

(***************************************************************************)
(* Properties of the scoring helpers.                                      *)
(***************************************************************************)
LevelRank ==
    [minimal |-> 0, low |-> 1, medium |-> 2, high |-> 3, critical |-> 4, imminent |-> 5]

Thresholds == {Frac(2, 10), Frac(4, 10), Frac(6, 10), Frac(8, 10), Frac(95, 100)}

OverrideCategories ==
    {"imminent_danger_suicide_explicit", "imminent_danger_self_harm_immediate"}

HasOverride(categories) ==
    \E i \in 1..Len(categories) : categories[i] \in OverrideCategories

\* C1: every score in [0, 1] gets a level; with an indicator of the
\* suicide-explicit or the self-harm-immediate leaf the level is IMMINENT,
\* otherwise it is the rank of the highest of the thresholds 0.20, 0.40, 0.60,
\* 0.80, 0.95 the score reaches, so it never falls as the score rises
RiskLevelByThresholds ==
    probe.op = "level" =>
        /\ probe.risk_level \in DOMAIN LevelRank
        /\ IF HasOverride(probe.categories)
           THEN probe.risk_level = "imminent"
           ELSE LevelRank[probe.risk_level]
                  = Cardinality({t \in Thresholds : ~FracLess(probe.risk_score, t)})

\* the score 0.80 itself, without the override, mapped to CRITICAL
CriticalAtThreshold ==
    /\ probe.op = "level"
    /\ probe.categories # <<>>
    /\ ~HasOverride(probe.categories)
    /\ probe.risk_score = Frac(8, 10)
    /\ probe.risk_level = "critical"

\* C8 as stated: the score of a list with further indicators in it is not
\* below the score of the list, under the same context
ScoreGrowsWithIndicators ==
    probe.op = "extend" => ~FracLess(probe.risk_score, probe.before)

\* C8: the score of a list with further indicators in it is not below the
\* score of the list, under the same context, when no further indicator is
\* less severe than an indicator of the list
ScoreGrowsWithSevereIndicators ==
    (/\ probe.op = "extend"
     /\ \A j \in 1..Len(probe.added) : \A i \in 1..Len(probe.indicators) :
            probe.added[j].severity >= probe.indicators[i].severity)
        => ~FracLess(probe.risk_score, probe.before)

\* a list of two extended by two indicators as severe as its most severe
\* one and less confident, the score rising
SevereIndicatorsRaiseScore ==
    /\ probe.op = "extend"
    /\ Len(probe.indicators) = 2
    /\ Len(probe.added) = 2
    /\ probe.indicators[1].severity > probe.indicators[2].severity
    /\ \A j \in 1..2 :
            /\ probe.added[j].severity = probe.indicators[1].severity
            /\ FracLess(probe.added[j].confidence, probe.indicators[1].confidence)
    /\ FracLess(probe.before, probe.risk_score)

\* C9 as stated: raising the severity or the confidence of one indicator
\* never lowers the score
ScoreGrowsWithSeverityAndConfidence ==
    probe.op \in {"raise_severity", "raise_confidence"}
        => ~FracLess(probe.risk_score, probe.before)

\* C9: raising the severity of one indicator never lowers the score, and
\* neither does raising the confidence of an indicator that no indicator of
\* the list is more severe than
ScoreGrowsWithSeverity ==
    /\ probe.op = "raise_severity" => ~FracLess(probe.risk_score, probe.before)
    /\ (/\ probe.op = "raise_confidence"
        /\ \A i \in 1..Len(probe.indicators) :
               probe.indicators[probe.index].severity >= probe.indicators[i].severity)
          => ~FracLess(probe.risk_score, probe.before)

\* the less severe of two indicators made more severe, the score rising
SeverityRaisesScore ==
    /\ probe.op = "raise_severity"
    /\ Len(probe.indicators) = 2
    /\ probe.index = 2
    /\ probe.indicators[1].severity > probe.severity
    /\ FracLess(probe.before, probe.risk_score)

(***************************************************************************)
(* Properties of the requests served at once (ConcurrentSpec).             *)
(***************************************************************************)
\* call c comes to its return statement in this step
Completes(c) == calls[c].pc # "done" /\ calls'[c].pc = "done"

\* C11: however the calls on the one detector interleave at their awaits,
\* a call returns the assessment it returns when it runs alone (same text,
\* context and history, the same readings of the clock, of the model
\* registry and of the sentiment analysis), and no step of a call writes the
\* taxonomy or the indicators another call has gathered.
ConcurrentCallsIndependent ==
    [][/\ severity_of' = InitialSeverities
       /\ \A c \in Callers :
            /\ Completes(c) =>
                 calls'[c].result =
                    assess_crisis_risk(calls'[c].text, calls'[c].context,
                                       calls'[c].user_history, InitialSeverities,
                                       hour, calls[c].pc = "ai", sentiment_up)
            /\ \A d \in Callers \ {c} :
                 /\ calls[c].pc # calls'[c].pc
                 /\ calls[d].pc \in {"detect", "ai"}
                 => calls'[d].indicators = calls[d].indicators]_vars

\* C11 witness: a call that gathered indicators has returned its assessment
\* after another call ran while it was suspended, and that other call is
\* itself suspended with indicators of another text
InterleavedCallReturned ==
    \E c, d \in Callers :
        /\ calls[c].pc = "done" /\ calls[c].overtaken
        /\ ~calls[c].result.raised
        /\ calls[c].result.assessment.crisis_indicators # <<>>
        /\ calls[d].pc = "ai"
        /\ calls[d].indicators # <<>>
        /\ calls[d].text # calls[c].text

(***************************************************************************)
(* Scenarios and lookups of the assessments (Spec).                        *)
(***************************************************************************)
\* the indicators of an assessment whose category names suicide
SuicideIndicators(assessment) ==
    SelectSeq(assessment.crisis_indicators,
              LAMBDA ind : Contains(ind.category, "suicide"))

\* what the call hands back for another text, all else equal
ResultFor(text) ==
    assess_crisis_risk(text, last.context, last.user_history, severity_of,
                       last.hour, last.available, sentiment_up)

\* C12: "I am not suicidal" yields a suicide indicator whose severity and
\* confidence are both strictly below those of the suicide indicator that
\* "I am suicidal" yields
NegatedSuicidalIsDampened ==
    (RanToEnd /\ last.text = Str("I am not suicidal")) =>
        \E i \in 1..Len(SuicideIndicators(last.result.assessment)),
           j \in 1..Len(SuicideIndicators(ResultFor(Str("I am suicidal")).assessment)) :
            LET negated == SuicideIndicators(last.result.assessment)[i]
                plain   == SuicideIndicators(ResultFor(Str("I am suicidal")).assessment)[j]
            IN  /\ negated.severity < plain.severity
                /\ FracLess(negated.confidence, plain.confidence)

\* the leaves the high-risk scenario names
ScenarioLeaves ==
    {"high_risk_ideation_suicide_ideation",
     "imminent_danger_method_specific",
     "high_risk_ideation_hopelessness_severe"}

HighRiskScenario ==
    /\ Delivered
    /\ last.text = Str("I want to die and I have pills ready, it's the only way out")
    /\ last.context = Context({"mood_score"}, {}, 2, FALSE, <<>>)
    /\ last.user_history = NoHistory

\* C13: "I want to die and I have pills ready, it's the only way out" with
\* context {mood_score: 2} is assessed with at least two indicators, among
\* them the suicide-ideation, method-specific and severe-hopelessness leaves,
\* at risk level HIGH, CRITICAL or IMMINENT and with intervention
\* crisis_contact, emergency_services or immediate_intervention
HighRiskScenarioHolds ==
    HighRiskScenario =>
        /\ Len(last.result.assessment.crisis_indicators) >= 2
        /\ \A leaf \in ScenarioLeaves :
              HasCategory(last.result.assessment.crisis_indicators, leaf)
        /\ last.result.assessment.risk_level \in {"high", "critical", "imminent"}
        /\ last.result.assessment.intervention_type
              \in {"crisis_contact", "emergency_services", "immediate_intervention"}

\* the scenario assessed, with the crisis model registered and by day
HighRiskScenarioAssessed ==
    /\ HighRiskScenario
    /\ last.available
    /\ ~IsLateNight(last.hour)
    /\ Len(last.result.assessment.crisis_indicators) >= 4
    /\ last.result.assessment.risk_level = "imminent"

HasResource(assessment, name) ==
    \E i \in 1..Len(assessment.resources_recommended) :
        assessment.resources_recommended[i].name = name

\* the lifeline and text line always, the emergency entries exactly for
\* IMMINENT and CRITICAL, the helpline and chat entries exactly for HIGH and
\* MEDIUM
ResourcesFollowLevel(assessment) ==
    /\ \E i \in 1..Len(assessment.resources_recommended) :
          /\ assessment.resources_recommended[i].name = "National Suicide Prevention Lifeline"
          /\ assessment.resources_recommended[i].contact = "988"
    /\ HasResource(assessment, "Crisis Text Line")
    /\ HasResource(assessment, "Emergency Services")
          <=> assessment.risk_level \in {"imminent", "critical"}
    /\ HasResource(assessment, "Emergency Room")
          <=> assessment.risk_level \in {"imminent", "critical"}
    /\ HasResource(assessment, "SAMHSA National Helpline")
          <=> assessment.risk_level \in {"high", "medium"}
    /\ HasResource(assessment, "Crisis Chat")
          <=> assessment.risk_level \in {"high", "medium"}

\* C14 as stated: every assessment handed back recommends the lifeline and the
\* text line, the emergency entries exactly at IMMINENT and CRITICAL and the
\* helpline and chat entries exactly at HIGH and MEDIUM
ResourcesAlwaysFollowLevel ==
    Delivered => ResourcesFollowLevel(last.result.assessment)

\* C14: every assessment the full analysis hands back recommends the lifeline
\* and the text line, the emergency entries exactly at IMMINENT and CRITICAL
\* and the helpline and chat entries exactly at HIGH and MEDIUM; the
\* assessments of empty input and of the error fallback recommend nothing
ResourcesFollowLevelAfterAnalysis ==
    Delivered =>
        IF BlankInput \/ StepFails
        THEN last.result.assessment.resources_recommended = <<>>
        ELSE ResourcesFollowLevel(last.result.assessment)

\* a MEDIUM assessment with four resources, the helpline and the chat among them
MediumGetsHelplineAndChat ==
    /\ RanToEnd
    /\ last.result.assessment.risk_level = "medium"
    /\ Len(last.result.assessment.resources_recommended) = 4
    /\ HasResource(last.result.assessment, "SAMHSA National Helpline")
    /\ HasResource(last.result.assessment, "Crisis Chat")

\* the instruction each list of the full analysis opens with
FirstAction ==
    [imminent |-> "IMMEDIATE ACTION REQUIRED",
     critical |-> "URGENT CRISIS SUPPORT NEEDED",
     high     |-> "Call 988 (Suicide & Crisis Lifeline)",
     medium   |-> "Contact mental health professional or counselor",
     low      |-> "Practice self-care and stress management",
     minimal  |-> "Practice self-care and stress management"]

\* C15 as stated: the actions are a function of the risk level alone (the
\* assessment of any other text at the same level carries the same list, at
\* another level another list), the IMMINENT list holds the call-911
\* instruction and the MINIMAL list the continue-monitoring instruction
ActionsFollowLevelAlone ==
    Delivered =>
        /\ \A text \in Texts :
              (last.result.assessment.risk_level
                    = ResultFor(text).assessment.risk_level)
              <=> (last.result.assessment.immediate_actions
                    = ResultFor(text).assessment.immediate_actions)
        /\ last.result.assessment.risk_level = "imminent"
              => IsIn("Call 911 or emergency services NOW",
                      last.result.assessment.immediate_actions)
        /\ last.result.assessment.risk_level = "minimal"
              => IsIn("Continue monitoring mood and wellbeing",
                      last.result.assessment.immediate_actions)

\* C15: the actions are a function of the risk level and of the path: after
\* the full analysis the list is the one of the level, IMMINENT, CRITICAL,
\* HIGH and MEDIUM each with a list of its own, LOW and MINIMAL with one list
\* for both, the IMMINENT list holding the call-911 instruction; the
\* assessments of empty input and of the error fallback carry the
\* continue-monitoring instruction alone
ActionsFollowLevelAndPath ==
    Delivered =>
        IF BlankInput \/ StepFails
        THEN last.result.assessment.immediate_actions
                = <<"Continue monitoring mood and wellbeing">>
        ELSE /\ last.result.assessment.immediate_actions
                  = generate_immediate_actions(last.result.assessment.risk_level)
             /\ Head(last.result.assessment.immediate_actions)
                  = FirstAction[last.result.assessment.risk_level]
             /\ last.result.assessment.risk_level = "imminent"
                  => IsIn("Call 911 or emergency services NOW",
                          last.result.assessment.immediate_actions)

\* a MINIMAL assessment of the full analysis: the list it shares with LOW,
\* without the continue-monitoring instruction
MinimalAfterAnalysisSharesLowList ==
    /\ RanToEnd
    /\ last.result.assessment.risk_level = "minimal"
    /\ last.result.assessment.immediate_actions = generate_immediate_actions("low")
    /\ ~IsIn("Continue monitoring mood and wellbeing",
             last.result.assessment.immediate_actions)

\* C16: an assessment that went through, a MINIMAL one included, has no
\* 'error' key in its metadata; the error fallback always has it, with the
\* message of the exception, which is not the note of the empty-input result
ErrorKeyTellsOutcome ==
    Delivered =>
        /\ (~BlankInput /\ ~StepFails)
              => "error" \notin DOMAIN last.result.assessment.assessment_metadata
        /\ StepFails
              => /\ "error" \in DOMAIN last.result.assessment.assessment_metadata
                 /\ last.result.assessment.assessment_metadata.error
                      # minimal_risk_assessment.assessment_metadata.error
        /\ BlankInput
              => /\ "error" \in DOMAIN last.result.assessment.assessment_metadata
                 /\ last.result.assessment.assessment_metadata.error
                      = "Empty or invalid input"

\* a text assessed MINIMAL by the full analysis, without an 'error' key
MinimalWithoutErrorKey ==
    /\ Delivered
    /\ ~BlankInput
    /\ ~StepFails
    /\ last.result.assessment.risk_level = "minimal"
    /\ last.result.assessment.risk_score = Frac(0, 1)
    /\ "error" \notin DOMAIN last.result.assessment.assessment_metadata

\* C17: when the sentiment analysis fails while the crisis model is
\* registered, the call hands back what it hands back with the keyword,
\* pattern and contextual detectors alone: no AI indicator, the same
\* indicators, score and level, and the error fallback only where a later
\* step fails
AIFailureIgnored ==
    (Delivered /\ last.available /\ ~sentiment_up) =>
        /\ ~HasCategory(last.result.assessment.crisis_indicators, "ai_sentiment_crisis")
        /\ last.result = assess_crisis_risk(last.text, last.context, last.user_history,
                                            severity_of, last.hour, FALSE, TRUE)
        /\ (~BlankInput /\ ~StepFails) => RanToEnd

\* the analysis failed on a text it rates above 0.3 when it works, and the
\* call went through with the indicators of the other detectors
AIFailedOnRiskyText ==
    /\ RanToEnd
    /\ last.available
    /\ ~sentiment_up
    /\ Scan(Strip(last.text.s)).ai[TRUE] # <<>>
    /\ last.result.assessment.crisis_indicators # <<>>
    /\ last.result.assessment.risk_level \in {"high", "critical", "imminent"}

Urgencies == {"immediate", "high", "medium", "low"}

\* C18: every indicator of an assessment handed back has its urgency_level
\* among immediate, high, medium and low
UrgencyWithinLevels ==
    Delivered =>
        \A i \in 1..Len(last.result.assessment.crisis_indicators) :
            last.result.assessment.crisis_indicators[i].urgency_level \in Urgencies

(***************************************************************************)
(* Properties of deduplication and ranking (ScoreSpec).                    *)
(***************************************************************************)
Categories(inds) == {inds[i].category : i \in 1..Len(inds)}

DistinctCategories(inds) ==
    \A i, j \in 1..Len(inds) : inds[i].category = inds[j].category => i = j

\* the indicators of one category, in the order of the list
OfCategory(inds, category) == SelectSeq(inds, LAMBDA ind : ind.category = category)

\* unique holds the one indicator that stands for group, the indicators of
\* one category in input order
StandsFor(u, group) ==
    /\ \E i \in 1..Len(group) : u.severity = group[i].severity
    /\ \A i \in 1..Len(group) : u.severity >= group[i].severity
    /\ \E i \in 1..Len(group) : u.confidence = group[i].confidence
    /\ \A i \in 1..Len(group) : ~FracLess(u.confidence, group[i].confidence)
    /\ u.keywords_found = ConcatAll([i \in 1..Len(group) |-> group[i].keywords_found])

\* C19: _deduplicate_indicators hands back one indicator for each category of
\* its input, with the greatest severity and the greatest confidence of that
\* category and its keywords concatenated in input order; the list that
\* _detect_crisis_indicators hands to the assessment has pairwise distinct
\* categories and falls in severity
DeduplicatedAndRanked ==
    probe.op = "dedup" =>
        /\ DistinctCategories(probe.unique)
        /\ Categories(probe.unique) = Categories(probe.indicators)
        /\ \A i \in 1..Len(probe.unique) :
              StandsFor(probe.unique[i],
                        OfCategory(probe.indicators, probe.unique[i].category))
        /\ DistinctCategories(probe.ranked)
        /\ Len(probe.ranked) = Len(probe.unique)
        /\ \A i \in 1..Len(probe.unique) :
              \E j \in 1..Len(probe.ranked) : probe.ranked[j] = probe.unique[i]
        /\ \A i \in 1..(Len(probe.ranked) - 1) :
              probe.ranked[i].severity >= probe.ranked[i + 1].severity

\* three indicators of two categories: the second and the third merged, with
\* the severity of the third and the keywords of both, and ranked first
MergedAndRankedFirst ==
    /\ probe.op = "dedup"
    /\ Len(probe.indicators) = 3
    /\ probe.indicators[2].category = probe.indicators[3].category
    /\ probe.indicators[1].category # probe.indicators[2].category
    /\ probe.indicators[3].severity > probe.indicators[2].severity
    /\ probe.indicators[3].severity > probe.indicators[1].severity
    /\ FracLess(probe.indicators[3].confidence, probe.indicators[2].confidence)
    /\ Len(probe.unique) = 2
    /\ probe.unique[2].keywords_found
         = probe.indicators[2].keywords_found \o probe.indicators[3].keywords_found
    /\ probe.ranked[1] = probe.unique[2]
    /\ probe.ranked[1].confidence = probe.indicators[2].confidence

(***************************************************************************)
(* Protective factors (Spec).                                              *)
(***************************************************************************)
\* the assessment of the same indicators, context and history at the same
\* hour, had no protective factor been detected in the text
WithoutProtectiveFactors ==
    AssessmentOfIndicators(last.result.assessment.crisis_indicators,
                           [Scan(Strip(last.text.s)) EXCEPT !.protective = <<>>],
                           last.context, last.user_history, last.hour,
                           Len(Strip(last.text.s)))

\* C20: the protective factors detected in a text are reported and nothing
\* else: the risk score and the risk level are those of the same indicators,
\* context and history with no protective factor detected, so neither is
\* lowered by any number of protective factors
ProtectiveFactorsOnlyReported ==
    RanToEnd =>
        /\ last.result.assessment.protective_factors
              = Scan(Strip(last.text.s)).protective
        /\ last.result.assessment.risk_score = WithoutProtectiveFactors.risk_score
        /\ last.result.assessment.risk_level = WithoutProtectiveFactors.risk_level

\* three protective factors reported next to a CRITICAL level and a score
\* of 0.7 or more
ProtectedYetCritical ==
    /\ RanToEnd
    /\ Len(last.result.assessment.protective_factors) >= 3
    /\ last.result.assessment.assessment_metadata.protective_factors_count >= 3
    /\ last.result.assessment.risk_level = "critical"
    /\ AtLeast(last.result.assessment.risk_score, 7, 10)

(***************************************************************************)
(* The base score as a formula of the indicators.                          *)
(***************************************************************************)
\* the confidences of a list over their common denominator
ConfidenceOver(indicators, L) ==
    [i \in 1..Len(indicators) |->
        indicators[i].confidence.n * (L \div indicators[i].confidence.d)]

\* the largest urgency multiplier of a list, in tenths
LargestMultiplier(indicators) ==
    IF \E i \in 1..Len(indicators) : indicators[i].urgency_level = "immediate" THEN 15
    ELSE IF \E i \in 1..Len(indicators) : indicators[i].urgency_level = "high" THEN 13
    ELSE IF \E i \in 1..Len(indicators) : indicators[i].urgency_level = "medium" THEN 11
    ELSE 10

\* permille is min(1.0, mean_n / mean_d + min(n * 0.05, 0.2) * U) to three
\* decimals, mean_n / mean_d being the mean in permille
IsBaseScore(permille, indicators, mean_n, mean_d) ==
    LET num == 10 * mean_n
                 + Min(50 * Len(indicators), 200) * LargestMultiplier(indicators) * mean_d
        den == 10 * mean_d
    IN  IF num >= 1000 * den THEN permille = 1000
        ELSE /\ 2 * (permille * den - num) <= den
             /\ 2 * (num - permille * den) <= den

\* the mean is sum(severity * confidence) / sum(confidence)
WeightedBySeverityTimesConfidence(permille, indicators, c) ==
    IsBaseScore(permille, indicators,
                SumSeq([i \in 1..Len(indicators) |-> indicators[i].severity * c[i]]),
                SumSeq(c))

\* the mean is sum(confidence * severity * confidence) / sum(confidence)
WeightedByConfidenceTwice(permille, indicators, c, L) ==
    IsBaseScore(permille, indicators,
                SumSeq([i \in 1..Len(indicators) |-> indicators[i].severity * c[i] * c[i]]),
                L * SumSeq(c))

\* C22 as stated: the base score of a list of indicators is 0 for the empty
\* list and otherwise min(1.0, W + min(n * 0.05, 0.2) * U) to three decimals,
\* with W = sum(confidence * severity * confidence) / sum(confidence)
BaseScoreWeighsConfidenceTwice ==
    probe.op = "score" =>
        IF probe.indicators = <<>> THEN probe.base_score = 0
        ELSE WeightedByConfidenceTwice(
                 probe.base_score, probe.indicators,
                 ConfidenceOver(probe.indicators, LcmOfDens(probe.indicators)),
                 LcmOfDens(probe.indicators))

\* C22: the base score of a list of indicators is 0 for the empty list and
\* otherwise min(1.0, W + min(n * 0.05, 0.2) * U) to three decimals, with U the
\* largest urgency multiplier of the list and W the mean of the severities
\* weighted by the confidences, sum(severity * confidence) / sum(confidence)
BaseScoreIsConfidenceWeightedMean ==
    probe.op = "score" =>
        IF probe.indicators = <<>> THEN probe.base_score = 0
        ELSE WeightedBySeverityTimesConfidence(
                 probe.base_score, probe.indicators,
                 ConfidenceOver(probe.indicators, LcmOfDens(probe.indicators)))

\* two indicators of different severity and confidence, below the cap
MixedConfidencesScored ==
    /\ probe.op = "score"
    /\ Len(probe.indicators) = 2
    /\ probe.indicators[1].severity # probe.indicators[2].severity
    /\ probe.indicators[1].confidence # probe.indicators[2].confidence
    /\ probe.base_score < 1000

(***************************************************************************)
(* The contextual adjustments as a product of factors.                     *)
(***************************************************************************)
Holds(d, key) == ~d.is_none /\ key \in d.keys

\* the factors in tenths, 10 standing for a factor that does not apply
MoodTenths(context) ==
    IF Holds(context, "mood_score") /\ context.num.mood_score <= 2 THEN 13
    ELSE IF Holds(context, "mood_score") /\ context.num.mood_score <= 4 THEN 11
    ELSE 10

DeclineTenths(context) ==
    IF Holds(context, "recent_mood_decline") /\ context.flag.recent_mood_decline
    THEN 12 ELSE 10

AttemptsTenths(user_history) ==
    IF Holds(user_history, "previous_attempts") /\ user_history.num.previous_attempts > 0
    THEN 14 ELSE 10

IncidentsTenths(user_history) ==
    IF /\ Holds(user_history, "crisis_incidents_last_month")
       /\ user_history.num.crisis_incidents_last_month > 2
    THEN 12 ELSE 10

SubstanceTenths(text) ==
    IF text \in {"drunk again", "no plan, high hopes"} THEN 13 ELSE 10

PlanTenths(text) ==
    IF text \in {"no plan, high hopes", "when will it end"} THEN 14 ELSE 10

\* the product of the six factors, as a fraction in lowest terms
FactorProduct(text, context, user_history) ==
    Frac(MoodTenths(context) * DeclineTenths(context) * AttemptsTenths(user_history)
           * IncidentsTenths(user_history) * SubstanceTenths(text) * PlanTenths(text),
         1000000)

CappedProduct(base_score, product) ==
    FracMin(Frac(base_score * product.n, 1000 * product.d), One)

\* C23: the adjusted score is min(1.0, base * product of the factors that
\* apply), each factor applying on its own: x1.3 at a mood_score of 2 or less
\* and x1.1 at one above 2 up to 4, x1.2 for recent_mood_decline, x1.4 for
\* previous_attempts > 0, x1.2 for crisis_incidents_last_month > 2, x1.3 for
\* a substance keyword and x1.4 for a plan keyword in the text; a field that
\* is absent contributes no factor
AdjustedScoreIsCappedProduct ==
    probe.op = "adjust" =>
        probe.risk_score =
            CappedProduct(probe.base_score,
                          FactorProduct(probe.text, probe.context, probe.user_history))

\* a mood_score of 2 or less with a further factor of each source, below the cap
LowMoodAdjustedBelowCap ==
    /\ probe.op = "adjust"
    /\ probe.base_score > 0
    /\ Holds(probe.context, "mood_score") /\ probe.context.num.mood_score <= 2
    /\ DeclineTenths(probe.context) = 12
    /\ AttemptsTenths(probe.user_history) = 14
    /\ SubstanceTenths(probe.text) = 13
    /\ FracLess(probe.risk_score, One)

\* C24 as stated: the risk_score of every returned assessment is a multiple
\* of 0.001
ReturnedScoreIsRounded ==
    Delivered => 1000 % last.result.assessment.risk_score.d = 0

(***************************************************************************)
(* The confidence of a leaf's keywords as a formula.                       *)
(***************************************************************************)
\* the found keywords that are phrases of several words
Phrases(found_keywords) ==
    {i \in 1..Len(found_keywords) :
        \E j \in 1..Len(found_keywords[i]) : Chr(found_keywords[i], j) = " "}

RECURSIVE Power(_, _)
Power(b, k) == IF k = 0 THEN 1 ELSE b * Power(b, k - 1)

\* min(1.0, m/t * b2 * 1.1^k), b2 being 1.2 from two found keywords on
BoostedShare(m, t, k) ==
    FracMin(Frac(m * (IF m >= 2 THEN 12 ELSE 10) * Power(11, k), t * 10 * Power(10, k)),
            One)

\* C25 as stated: the confidence is min(1.0, m/t * b2 * bp) with bp = 1.1 when
\* at least one found keyword is a phrase, taken once however many are
PhraseBoostTakenOnce ==
    probe.op = "confidence" =>
        probe.confidence =
            BoostedShare(Len(probe.found_keywords), Len(probe.all_keywords),
                         IF Phrases(probe.found_keywords) = {} THEN 0 ELSE 1)

\* C25: the confidence is min(1.0, m/t * b2 * 1.1^k), m being the number of
\* found keywords of the leaf, t the number of keywords of the leaf, b2 = 1.2
\* if m >= 2 else 1, and k the number of found keywords that are phrases of
\* several words: the 1.1 is taken once per such phrase
PhraseBoostTakenPerPhrase ==
    probe.op = "confidence" =>
        probe.confidence =
            BoostedShare(Len(probe.found_keywords), Len(probe.all_keywords),
                         Cardinality(Phrases(probe.found_keywords)))

\* two phrases found in a leaf, below the cap
TwoPhrasesFound ==
    /\ probe.op = "confidence"
    /\ Cardinality(Phrases(probe.found_keywords)) >= 2
    /\ FracLess(probe.confidence, One)

(***************************************************************************)
(* Negation: which indicators of the keyword detector are dampened.        *)
(***************************************************************************)
\* the negation token n stands as a word at position p of the text
TokenAt(text, n, p) ==
    /\ OccursAt(text, n, p)
    /\ WordBoundary(text, p)
    /\ WordBoundary(text, p + Len(n))

\* a negation token lies within the 20 characters before position i
NegationBefore(text, i) ==
    \E t \in 1..Len(negation_words) :
        \E p \in Max(1, i - NegationWindow)..(i - 1) :
            /\ TokenAt(text, negation_words[t], p)
            /\ p + Len(negation_words[t]) - 1 <= i - 1

\* some occurrence of some found keyword has a negation token before it
NegatedOccurrence(text, found_keywords) ==
    \E k \in 1..Len(found_keywords) :
        \E i \in 1..Len(text) :
            OccursAt(text, found_keywords[k], i) /\ NegationBefore(text, i)

\* C26 as stated: the indicator of a leaf is dampened, its severity half the
\* leaf's and taken once, exactly when a negation token occurs within the 20
\* characters before an occurrence of one of its matched keywords; otherwise
\* it keeps the leaf's severity; the taxonomy is never modified
DampenedIffNegated ==
    /\ severity_of = InitialSeverities
    /\ probe.op = "negation" =>
          \A i \in 1..Len(probe.indicators) :
              probe.indicators[i].severity =
                  IF NegatedOccurrence(probe.text, probe.indicators[i].keywords_found)
                  THEN InitialSeverities[probe.indicators[i].category] \div 2
                  ELSE InitialSeverities[probe.indicators[i].category]

(***************************************************************************)
(* The imminent override and the negation dampening.                       *)
(***************************************************************************)
\* the indicators of the two overriding leaves in an assessment
OverrideIndicators(assessment) ==
    {i \in 1..Len(assessment.crisis_indicators) :
        assessment.crisis_indicators[i].category \in OverrideCategories}

\* the indicator was dampened by negation: it carries half its leaf's severity
Dampened(indicator) ==
    indicator.severity = InitialSeverities[indicator.category] \div 2

\* every match in the two overriding leaves is a negated one, and there is one
OnlyNegatedOverride(assessment) ==
    /\ OverrideIndicators(assessment) # {}
    /\ \A i \in OverrideIndicators(assessment) :
           Dampened(assessment.crisis_indicators[i])

\* C28: an assessment whose only indicators of the suicide-explicit and the
\* self-harm-immediate leaf are dampened by negation is still IMMINENT with
\* intervention immediate_intervention, whatever its score
NegatedOverrideStillImminent ==
    (RanToEnd /\ OnlyNegatedOverride(last.result.assessment))
        => /\ last.result.assessment.risk_level = "imminent"
           /\ last.result.assessment.intervention_type = "immediate_intervention"

\* such an assessment with a score below 0.95
NegatedOverrideBelowThreshold ==
    /\ RanToEnd
    /\ OnlyNegatedOverride(last.result.assessment)
    /\ FracLess(last.result.assessment.risk_score, Frac(95, 100))
    /\ last.result.assessment.intervention_type = "immediate_intervention"

\* C29 as stated: every assessment returned CRITICAL or IMMINENT is marked
\* requires_human_review
SevereLevelsAreReviewed ==
    (RanToEnd /\ last.result.assessment.risk_level \in {"critical", "imminent"})
        => last.result.assessment.assessment_metadata.requires_human_review

(***************************************************************************)
(* The incidents the service persists.                                     *)
(***************************************************************************)
\* a step in which the service answered a request
ServiceAnswered ==
    /\ response'.kind = "service"
    /\ <<crisis_incidents, response>>' # <<crisis_incidents, response>>

\* the table grew by one row that carries the level, score and intervention
\* type of the assessment
IncidentAdded(assessment) ==
    /\ Len(crisis_incidents') = Len(crisis_incidents) + 1
    /\ SubSeq(crisis_incidents', 1, Len(crisis_incidents)) = crisis_incidents
    /\ crisis_incidents'[Len(crisis_incidents')].risk_level = assessment.risk_level
    /\ crisis_incidents'[Len(crisis_incidents')].risk_score = assessment.risk_score
    /\ crisis_incidents'[Len(crisis_incidents')].intervention_type
         = assessment.intervention_type

AnsweredWithAI ==
    /\ response.kind = "track"
    /\ response.ai_modules_available
    /\ response.status = 200

\* the request left an incident row for its user
IncidentRecorded ==
    \E i \in 1..Len(crisis_incidents) : crisis_incidents[i].user_id = response.user_id

\* C27 as stated: with the AI modules available the response carries the risk
\* level the detector determined for the notes, and whenever that level is
\* not minimal, intervention_required is true, the intervention ran and an
\* incident is in the table when the response is returned
ResponseFollowsDetector ==
    AnsweredWithAI =>
        /\ response.risk_level = response.detector_level
        /\ response.detector_level # "minimal" =>
              /\ response.intervention_required
              /\ response.intervention_triggered
              /\ IncidentRecorded

(***************************************************************************)
(* The WebSocket registry.                                                 *)
(***************************************************************************)
\* the sockets of a user that were accepted and have not disconnected
OpenSockets(user_id) ==
    {ws \in 1..Len(sockets) :
        sockets[ws].user_id = user_id /\ sockets[ws].state = "open"}

\* C30 as stated: as long as a user has an accepted connection that has not
\* disconnected, active_connections holds an open connection for that user
OpenConnectionIsRegistered ==
    \A user_id \in UserIds :
        OpenSockets(user_id) # {} =>
            /\ user_id \in DOMAIN active_connections
            /\ sockets[active_connections[user_id]].state = "open"

====
